---- MODULE Spec2Model ----
(***************************************************************************)
(* Ceph RBD volume/snapshot lifecycle of the storage driver:               *)
(* the dependency-aware deletion engine (deleteVolume and                  *)
(* deleteVolumeSnapshot), run command by command against a model of the    *)
(* RBD pool (images, snapshots, clone parent pointers, kernel mappings).   *)
(*                                                                         *)
(* An RBD name is modelled by what the code can tell from it: the entity   *)
(* it names (id) and whether it carries the zombie_ prefix (z).  A handle  *)
(* [id, z] names an existing entity only if the entity's current name has  *)
(* the same prefix, so a handle that went stale through a rename or a      *)
(* removal names nothing, as the string it stands for would.               *)
(***************************************************************************)
EXTENDS Integers, Sequences, FiniteSets, TLC

\* ---- bounds of the model ----
MaxVols == 3
MaxSnaps == 3
MaxMaps == 1
\* clones in the pool of sparse copies
DeepClones == 3
\* rbd commands that fail for a reason outside the pool
MaxFaults == 1
\* kernel mappings stacked on one image or snapshot
MaxStack == 2
\* "rbd unmap" answers of a device in use (EBUSY) during one experiment
MaxBusy == 19
\* entries of /sys/devices/rbd when the device lookup starts
MaxDevs == 2
\* chunks "rbd export-diff" writes to its standard output
MaxChunks == 3
\* characters of a volume name in the naming codec
MaxName == 2

VARIABLES
    img,      \* RBD images: img[v] = [used, ex, z, parent, maps]
    snp,      \* RBD snapshots: snp[s] = [used, ex, vol, z, prot, maps]
    stack,    \* activation records of deleteVolume / deleteVolumeSnapshot
    call,     \* the caller's view of the invocation in progress
    pre,      \* the pool as it was when the invocation started
    log,      \* rbd commands issued by the invocation, in order
    prev,     \* the invocation completed before this one
    faults,   \* rbd commands that may still fail for an outside reason
    sub       \* a helper call under way: its inputs, position and answer

vars == <<img, snp, stack, call, pre, log, prev, faults, sub>>

VolIds == DOMAIN img
SnapIds == DOMAIN snp

\* ---- results of the C-style convention (deleteVolume doc comment) ----
RetFailed == 0 - 1
RetDeleted == 0
RetZombified == 1

\* ---- outcome classes of an rbd wrapper ----
\* "ok": err == nil; "notfound": api.StatusErrorf(http.StatusNotFound, ...);
\* "err": any other error (the command exited non-zero).
NoImg == [used |-> FALSE, ex |-> FALSE, z |-> FALSE, parent |-> 0, maps |-> 0]
NoSnp == [used |-> FALSE, ex |-> FALSE, vol |-> 0, z |-> FALSE, prot |-> FALSE, maps |-> 0]
GoneImg == [NoImg EXCEPT !.used = TRUE]
GoneSnp == [NoSnp EXCEPT !.used = TRUE]
NoHandle == [id |-> 0, z |-> FALSE]
NoPool == [img |-> <<>>, snp |-> <<>>]
NoFrame == [fn |-> "none"]
NoCall == [st |-> "idle", fn |-> "none", vol |-> NoHandle, snap |-> NoHandle,
           ret |-> 0, err |-> FALSE, frame |-> NoFrame, retry |-> FALSE]
NoPrev == [fn |-> "none"]
\* no helper call (unmap, device lookup, transfer) is under way
NoSub == [m |-> "none"]

\* ---- the pool as the rbd tool sees it ----
\* getRBDVolumeName builds the name from vol.isDeleted; the image answers to
\* it only under its current name.
VolAt(I, h) == h.id \in DOMAIN I /\ I[h.id].ex /\ I[h.id].z = h.z
SnapAt(I, S, vh, sh) ==
    /\ VolAt(I, vh)
    /\ sh.id \in DOMAIN S
    /\ S[sh.id].ex /\ S[sh.id].vol = vh.id /\ S[sh.id].z = sh.z
SnapsOf(S, v) == {s \in DOMAIN S : S[s].ex /\ S[s].vol = v}
ClonesOf(I, s) == {c \in DOMAIN I : I[c].ex /\ I[c].parent = s}
VolHandle(I, v) == [id |-> v, z |-> I[v].z]
SnapHandle(S, s) == [id |-> s, z |-> S[s].z]

\* every listing order the rbd tool may print a set in
Orders(X) == {q \in [1..Cardinality(X) -> X] : \A i, j \in DOMAIN q : q[i] = q[j] => i = j}

\* ---- rbd wrappers: [rc, img, snp] after the command ----
Res(rc, I, S) == [rc |-> rc, img |-> I, snp |-> S]

\* rbd unmap until EINVAL: every stacked mapping is removed; a name that is
\* not mapped (or not there) answers EINVAL (22), which is success.
rbdUnmapVolume(I, S, h) ==
    IF VolAt(I, h) THEN Res("ok", [I EXCEPT ![h.id].maps = 0], S) ELSE Res("ok", I, S)

rbdUnmapVolumeSnapshot(I, S, vh, sh) ==
    IF SnapAt(I, S, vh, sh) THEN Res("ok", I, [S EXCEPT ![sh.id].maps = 0])
    ELSE Res("ok", I, S)

\* rbd rm: exits 0 when the image is not there (doc comment); an image that
\* is still mapped or still has snapshots cannot be removed.
rbdDeleteVolume(I, S, h) ==
    IF ~VolAt(I, h) THEN Res("ok", I, S)
    ELSE IF I[h.id].maps > 0 \/ SnapsOf(S, h.id) # {} THEN Res("err", I, S)
    ELSE Res("ok", [I EXCEPT ![h.id] = GoneImg], S)

\* rbd snap unprotect: only succeeds if the snapshot has no clones; an
\* already unprotected snapshot answers 22, which is success.
rbdUnprotectVolumeSnapshot(I, S, vh, sh) ==
    IF ~SnapAt(I, S, vh, sh) THEN Res("err", I, S)
    ELSE IF ClonesOf(I, sh.id) # {} THEN Res("err", I, S)
    ELSE Res("ok", I, [S EXCEPT ![sh.id].prot = FALSE])

\* rbd snap rm: requires the snapshot to be unmapped and unprotected.
rbdDeleteVolumeSnapshot(I, S, vh, sh) ==
    IF ~SnapAt(I, S, vh, sh) THEN Res("err", I, S)
    ELSE IF S[sh.id].prot \/ S[sh.id].maps > 0 THEN Res("err", I, S)
    ELSE Res("ok", I, [S EXCEPT ![sh.id] = GoneSnp])

\* rbd mv <name> zombie_<type>_<name>_<uuid>
rbdMarkVolumeDeleted(I, S, h) ==
    IF ~VolAt(I, h) THEN Res("err", I, S)
    ELSE Res("ok", [I EXCEPT ![h.id].z = TRUE], S)

\* rbd snap rename <snap> zombie_snapshot_<uuid>
rbdRenameVolumeSnapshot(I, S, vh, sh) ==
    IF ~SnapAt(I, S, vh, sh) THEN Res("err", I, S)
    ELSE Res("ok", I, [S EXCEPT ![sh.id].z = TRUE])

\* rbd snap ls: the snapshot names, NotFound when there are none
rbdListVolumeSnapshots(I, S, h) ==
    IF ~VolAt(I, h) THEN [rc |-> "err", out |-> {}]
    ELSE IF SnapsOf(S, h.id) = {} THEN [rc |-> "notfound", out |-> {}]
    ELSE [rc |-> "ok", out |-> {SnapHandle(S, s) : s \in SnapsOf(S, h.id)}]

\* parseClone: the clone's name, and isDeleted from its zombie_ prefix
parseClone(I, c) == VolHandle(I, c)

\* rbd children: the clone names, NotFound when there are none
rbdListSnapshotClones(I, S, vh, sh) ==
    IF ~SnapAt(I, S, vh, sh) THEN [rc |-> "err", out |-> {}]
    ELSE IF ClonesOf(I, sh.id) = {} THEN [rc |-> "notfound", out |-> {}]
    ELSE [rc |-> "ok", out |-> {parseClone(I, c) : c \in ClonesOf(I, sh.id)}]

\* parseParent: the parent volume (isDeleted from the zombie_ prefix) and
\* the snapshot name after the @
parseParent(I, S, s) == [vol |-> VolHandle(I, S[s].vol), snap |-> SnapHandle(S, s)]

\* rbd info, "parent: " line: NotFound when the image is no clone
rbdGetVolumeParent(I, S, h) ==
    IF ~VolAt(I, h) THEN [rc |-> "err", out |-> [vol |-> NoHandle, snap |-> NoHandle]]
    ELSE IF I[h.id].parent = 0
         THEN [rc |-> "notfound", out |-> [vol |-> NoHandle, snap |-> NoHandle]]
    ELSE [rc |-> "ok", out |-> parseParent(I, S, I[h.id].parent)]

\* ---- activation records ----
Frame(fn, via, vh, sh, pc) ==
    [fn |-> fn, via |-> via, vol |-> vh, snap |-> sh, pc |-> pc,
     list |-> <<>>, i |-> 1, zombies |-> 0, canDelete |-> TRUE,
     hasp |-> FALSE, pvol |-> NoHandle, psnap |-> NoHandle, br |-> "none"]

Running == call.st = "running" /\ stack # <<>>
Top == stack[Len(stack)]
Rest == SubSeq(stack, 1, Len(stack) - 1)
At(fn, pc) == Running /\ Top.fn = fn /\ Top.pc = pc

\* an rbd command may fail for a reason of its own while faults remain
Faulty == IF faults > 0 THEN BOOLEAN ELSE {FALSE}
Hit(f, r) == IF f THEN [r EXCEPT !.rc = "err"] ELSE r
HitRes(f, r) == IF f THEN Res("err", img, snp) ELSE r
Spend(f) == faults' = IF f THEN faults - 1 ELSE faults

Cmd(op, v, s, rc) == Append(log, [op |-> op, v |-> v, s |-> s, rc |-> rc])
Value(ret, err) == [ret |-> ret, err |-> err]

\* ---- what each function returns at its return statements ----
\* deleteVolume: "return 1, nil" after the zombie branch, "return 0, nil" else
DvResultZombie == Value(RetZombified, FALSE)
DvResultDeleted_AsCascade == Value(RetZombified, FALSE)
DvResultDeleted == Value(RetDeleted, FALSE)
\* deleteVolumeSnapshot: "return 0, nil" closes the no-clones branch; the
\* branch taken when clones were listed ends at the final "return 1, nil"
DvsResultAfterDelete(br) ==
    IF br = "noclones" THEN Value(RetDeleted, FALSE) ELSE Value(RetZombified, FALSE)
DvsResultZombie_AsDeleted == Value(RetDeleted, FALSE)
DvsResultZombie == Value(RetZombified, FALSE)
Failed == Value(RetFailed, TRUE)

\* deleteVolume, parent cascade condition:
\* parentVol.isDeleted || strings.HasPrefix(parentSnapshotName, "zombie_")
ParentIsZombie_Always(pvol, psnap) == TRUE
ParentIsZombie_Never(pvol, psnap) == FALSE
ParentIsZombie(pvol, psnap) == pvol.z \/ psnap.z
\* deleteVolumeSnapshot, clone loop: a clone is passed on only if isDeleted
CloneEligible_Any(clone) == TRUE
CloneEligible(clone) == clone.z
\* deleteVolumeSnapshot: the owning volume is revisited only if vol.isDeleted
VolumeCascade(vh) == vh.z
\* deleteVolume: "if zombies > 0"
HasZombies_MoreThanOne(n) == n > 1
HasZombies(n) == n > 0
\* "if vol.isDeleted { return 1, nil }" in deleteVolume and
\* "if strings.HasPrefix(snapshotName, "zombie_") { return 1, nil }" in
\* deleteVolumeSnapshot: an entity in zombie form is not renamed
AlreadyZombie_Never(h) == FALSE
AlreadyZombie(h) == h.z

\* response.IsNotFoundError(err): only the NotFound status built by the
\* listing helpers for an empty answer; a failed command is not NotFound
IsNotFoundError_AnyError(rc) == rc # "ok"
IsNotFoundError(rc) == rc = "notfound"
\* "if ret < 0 { return -1, err }" after every recursive call
Propagates_Never(r) == FALSE
Propagates(r) == r.ret < 0

\* ---- returning a value to the caller's frame ----
\* The value r goes to the frame on top of stk, which continues after its
\* call statement; "if ret < 0 { return -1, err }" returns at once.
RECURSIVE Unwind(_, _)
Unwind(stk, r) ==
    IF stk = <<>> THEN [stack |-> <<>>, done |-> TRUE, val |-> r]
    ELSE
      LET f == stk[Len(stk)]
          rest == SubSeq(stk, 1, Len(stk) - 1)
          go(g) == [stack |-> Append(rest, g), done |-> FALSE, val |-> r]
      IN  IF Propagates(r) THEN Unwind(rest, Value(RetFailed, r.err))
          ELSE CASE f.pc = "loop_wait" ->
                      go([f EXCEPT !.pc = "loop", !.i = @ + 1,
                                   !.zombies = IF r.ret = RetZombified THEN @ + 1 ELSE @])
                 [] f.pc = "parent_wait" -> Unwind(rest, DvResultDeleted)
                 [] f.pc = "clone_wait" ->
                      go([f EXCEPT !.pc = "cloop", !.i = @ + 1,
                                   !.canDelete = IF r.ret = RetZombified THEN FALSE ELSE @])
                 [] f.pc = "vol_wait" -> Unwind(rest, DvsResultAfterDelete(f.br))

Return(r) ==
    LET u == Unwind(Rest, r)
    IN  /\ stack' = u.stack
        /\ call' = IF u.done
                   THEN [call EXCEPT !.st = "returned", !.ret = u.val.ret, !.err = u.val.err,
                                     !.frame = stack[1]]
                   ELSE call

Goto(f) == stack' = Append(Rest, f) /\ UNCHANGED call
CallFrom(waitpc, g) ==
    stack' = Append(Append(Rest, [Top EXCEPT !.pc = waitpc]), g) /\ UNCHANGED call

\* ======================= deleteVolume =======================
\* snaps, err := d.rbdListVolumeSnapshots(vol)
DvListSnapshots ==
    /\ At("dv", "ls")
    /\ \E f \in Faulty :
         LET r == Hit(f, rbdListVolumeSnapshots(img, snp, Top.vol))
         IN  /\ Spend(f)
             /\ log' = Cmd("snap_ls", Top.vol.id, 0, r.rc)
             /\ IF r.rc = "ok"
                THEN \E q \in Orders(r.out) : Goto([Top EXCEPT !.pc = "loop", !.list = q])
                ELSE IF IsNotFoundError(r.rc) THEN Goto([Top EXCEPT !.pc = "info"])
                ELSE Return(Failed)
    /\ UNCHANGED <<img, snp, pre, prev, sub>>

\* for _, snap := range snaps { ret, err := d.deleteVolumeSnapshot(vol, snap) }
\* and the branch on zombies after the loop
DvSnapshotLoop ==
    /\ At("dv", "loop")
    /\ IF Top.i <= Len(Top.list)
       THEN CallFrom("loop_wait",
                     Frame("dvs", "snaploop", Top.vol, Top.list[Top.i], "children"))
       ELSE IF HasZombies(Top.zombies) THEN Goto([Top EXCEPT !.pc = "zunmap"])
       ELSE Goto([Top EXCEPT !.pc = "rm"])
    /\ UNCHANGED <<img, snp, pre, log, prev, faults, sub>>

\* zombies > 0: err = d.rbdUnmapVolume(vol, true); if vol.isDeleted return 1
DvZombieUnmap ==
    /\ At("dv", "zunmap")
    /\ \E f \in Faulty :
         LET r == HitRes(f, rbdUnmapVolume(img, snp, Top.vol))
         IN  /\ Spend(f)
             /\ log' = Cmd("unmap", Top.vol.id, 0, r.rc)
             /\ img' = r.img /\ snp' = r.snp
             /\ IF r.rc # "ok" THEN Return(Failed)
                ELSE IF AlreadyZombie(Top.vol) THEN Return(DvResultZombie)
                ELSE Goto([Top EXCEPT !.pc = "zmark"])
    /\ UNCHANGED <<pre, prev, sub>>

\* err := d.rbdMarkVolumeDeleted(vol, newVolumeName); return 1, nil
DvMarkDeleted ==
    /\ At("dv", "zmark")
    /\ \E f \in Faulty :
         LET r == HitRes(f, rbdMarkVolumeDeleted(img, snp, Top.vol))
         IN  /\ Spend(f)
             /\ log' = Cmd("mv", Top.vol.id, 0, r.rc)
             /\ img' = r.img /\ snp' = r.snp
             /\ IF r.rc # "ok" THEN Return(Failed) ELSE Return(DvResultZombie)
    /\ UNCHANGED <<pre, prev, sub>>

\* zombies == 0: err = d.rbdDeleteVolume(vol); return 0, nil
DvDeleteAfterSnapshots ==
    /\ At("dv", "rm")
    /\ \E f \in Faulty :
         LET r == HitRes(f, rbdDeleteVolume(img, snp, Top.vol))
         IN  /\ Spend(f)
             /\ log' = Cmd("rm", Top.vol.id, 0, r.rc)
             /\ img' = r.img /\ snp' = r.snp
             /\ IF r.rc # "ok" THEN Return(Failed) ELSE Return(DvResultDeleted)
    /\ UNCHANGED <<pre, prev, sub>>

\* no snapshots: parent, err := d.rbdGetVolumeParent(vol); d.parseParent(parent)
DvGetParent ==
    /\ At("dv", "info")
    /\ \E f \in Faulty :
         LET r == Hit(f, rbdGetVolumeParent(img, snp, Top.vol))
         IN  /\ Spend(f)
             /\ log' = Cmd("info", Top.vol.id, 0, r.rc)
             /\ IF r.rc = "ok"
                THEN Goto([Top EXCEPT !.pc = "unmap", !.hasp = TRUE,
                                      !.pvol = r.out.vol, !.psnap = r.out.snap])
                ELSE IF IsNotFoundError(r.rc) THEN Goto([Top EXCEPT !.pc = "unmap"])
                ELSE Return(Failed)
    /\ UNCHANGED <<img, snp, pre, prev, sub>>

\* err = d.rbdUnmapVolume(vol, true), in both no-snapshot branches
DvUnmap ==
    /\ At("dv", "unmap")
    /\ \E f \in Faulty :
         LET r == HitRes(f, rbdUnmapVolume(img, snp, Top.vol))
         IN  /\ Spend(f)
             /\ log' = Cmd("unmap", Top.vol.id, 0, r.rc)
             /\ img' = r.img /\ snp' = r.snp
             /\ IF r.rc # "ok" THEN Return(Failed) ELSE Goto([Top EXCEPT !.pc = "delete"])
    /\ UNCHANGED <<pre, prev, sub>>

\* err = d.rbdDeleteVolume(vol), then the zombie parent snapshot is revisited
DvDelete ==
    /\ At("dv", "delete")
    /\ \E f \in Faulty :
         LET r == HitRes(f, rbdDeleteVolume(img, snp, Top.vol))
         IN  /\ Spend(f)
             /\ log' = Cmd("rm", Top.vol.id, 0, r.rc)
             /\ img' = r.img /\ snp' = r.snp
             /\ IF r.rc # "ok" THEN Return(Failed)
                ELSE IF Top.hasp /\ ParentIsZombie(Top.pvol, Top.psnap)
                THEN CallFrom("parent_wait",
                              Frame("dvs", "parent", Top.pvol, Top.psnap, "children"))
                ELSE Return(DvResultDeleted)
    /\ UNCHANGED <<pre, prev, sub>>

\* ==================== deleteVolumeSnapshot ====================
\* clones, err := d.rbdListSnapshotClones(vol, snapshotName)
DvsListClones ==
    /\ At("dvs", "children")
    /\ \E f \in Faulty :
         LET r == Hit(f, rbdListSnapshotClones(img, snp, Top.vol, Top.snap))
         IN  /\ Spend(f)
             /\ log' = Cmd("children", Top.vol.id, Top.snap.id, r.rc)
             /\ IF r.rc = "ok"
                THEN \E q \in Orders(r.out) :
                         Goto([Top EXCEPT !.pc = "cloop", !.list = q, !.br = "clones"])
                ELSE IF IsNotFoundError(r.rc)
                THEN Goto([Top EXCEPT !.pc = "unprotect", !.br = "noclones"])
                ELSE Return(Failed)
    /\ UNCHANGED <<img, snp, pre, prev, sub>>

\* for _, clone := range clones { ... d.deleteVolume(cloneVol) ... }
\* and the branch on canDelete after the loop
DvsCloneLoop ==
    /\ At("dvs", "cloop")
    /\ IF Top.i <= Len(Top.list)
       THEN IF CloneEligible(Top.list[Top.i])
            THEN CallFrom("clone_wait",
                          Frame("dv", "cloneloop", Top.list[Top.i], NoHandle, "ls"))
            ELSE Goto([Top EXCEPT !.canDelete = FALSE, !.i = @ + 1])
       ELSE IF Top.canDelete THEN Goto([Top EXCEPT !.pc = "unprotect"])
       ELSE IF AlreadyZombie(Top.snap) THEN Return(DvsResultZombie)
       ELSE Goto([Top EXCEPT !.pc = "zsunmap"])
    /\ UNCHANGED <<img, snp, pre, log, prev, faults, sub>>

\* err = d.rbdUnprotectVolumeSnapshot(vol, snapshotName)
DvsUnprotect ==
    /\ At("dvs", "unprotect")
    /\ \E f \in Faulty :
         LET r == HitRes(f, rbdUnprotectVolumeSnapshot(img, snp, Top.vol, Top.snap))
         IN  /\ Spend(f)
             /\ log' = Cmd("snap_unprotect", Top.vol.id, Top.snap.id, r.rc)
             /\ img' = r.img /\ snp' = r.snp
             /\ IF r.rc # "ok" THEN Return(Failed) ELSE Goto([Top EXCEPT !.pc = "sunmap"])
    /\ UNCHANGED <<pre, prev, sub>>

\* err = d.rbdUnmapVolumeSnapshot(vol, snapshotName, true)
DvsUnmap_Unchecked ==
    /\ At("dvs", "sunmap")
    /\ \E f \in Faulty :
         LET r == HitRes(f, rbdUnmapVolumeSnapshot(img, snp, Top.vol, Top.snap))
         IN  /\ Spend(f)
             /\ log' = Cmd("snap_unmap", Top.vol.id, Top.snap.id, r.rc)
             /\ img' = r.img /\ snp' = r.snp
             /\ Goto([Top EXCEPT !.pc = "srm"])
    /\ UNCHANGED <<pre, prev, sub>>
DvsUnmap ==
    /\ At("dvs", "sunmap")
    /\ \E f \in Faulty :
         LET r == HitRes(f, rbdUnmapVolumeSnapshot(img, snp, Top.vol, Top.snap))
         IN  /\ Spend(f)
             /\ log' = Cmd("snap_unmap", Top.vol.id, Top.snap.id, r.rc)
             /\ img' = r.img /\ snp' = r.snp
             /\ IF r.rc # "ok" THEN Return(Failed) ELSE Goto([Top EXCEPT !.pc = "srm"])
    /\ UNCHANGED <<pre, prev, sub>>

\* err = d.rbdDeleteVolumeSnapshot(vol, snapshotName), then the zombie
\* volume is revisited: if vol.isDeleted { ret, err := d.deleteVolume(vol) }
DvsDelete ==
    /\ At("dvs", "srm")
    /\ \E f \in Faulty :
         LET r == HitRes(f, rbdDeleteVolumeSnapshot(img, snp, Top.vol, Top.snap))
         IN  /\ Spend(f)
             /\ log' = Cmd("snap_rm", Top.vol.id, Top.snap.id, r.rc)
             /\ img' = r.img /\ snp' = r.snp
             /\ IF r.rc # "ok" THEN Return(Failed)
                ELSE IF VolumeCascade(Top.vol)
                THEN CallFrom("vol_wait", Frame("dv", "volume", Top.vol, NoHandle, "ls"))
                ELSE Return(DvsResultAfterDelete(Top.br))
    /\ UNCHANGED <<pre, prev, sub>>

\* a clone blocks: err := d.rbdUnmapVolumeSnapshot(vol, snapshotName, true)
DvsZombieUnmap ==
    /\ At("dvs", "zsunmap")
    /\ \E f \in Faulty :
         LET r == HitRes(f, rbdUnmapVolumeSnapshot(img, snp, Top.vol, Top.snap))
         IN  /\ Spend(f)
             /\ log' = Cmd("snap_unmap", Top.vol.id, Top.snap.id, r.rc)
             /\ img' = r.img /\ snp' = r.snp
             /\ IF r.rc # "ok" THEN Return(Failed) ELSE Goto([Top EXCEPT !.pc = "zsmv"])
    /\ UNCHANGED <<pre, prev, sub>>

\* err = d.rbdRenameVolumeSnapshot(vol, snapshotName, newSnapshotName); return 1, nil
DvsRename ==
    /\ At("dvs", "zsmv")
    /\ \E f \in Faulty :
         LET r == HitRes(f, rbdRenameVolumeSnapshot(img, snp, Top.vol, Top.snap))
         IN  /\ Spend(f)
             /\ log' = Cmd("snap_rename", Top.vol.id, Top.snap.id, r.rc)
             /\ img' = r.img /\ snp' = r.snp
             /\ IF r.rc # "ok" THEN Return(Failed) ELSE Return(DvsResultZombie)
    /\ UNCHANGED <<pre, prev, sub>>

\* ==================== the layer above ====================
Idle == call.st = "idle"
FreeVols == {v \in VolIds : ~img[v].used}
FreeSnaps == {s \in SnapIds : ~snp[s].used}
Least(X) == CHOOSE x \in X : \A y \in X : x <= y
LiveVols == {v \in VolIds : img[v].ex /\ ~img[v].z}
LiveSnaps == {s \in SnapIds : snp[s].ex /\ ~snp[s].z /\ snp[s].vol \in LiveVols}

\* kernel mappings on this host
RECURSIVE Sum(_, _)
Sum(f, D) == IF D = {} THEN 0 ELSE LET x == CHOOSE y \in D : TRUE IN f[x] + Sum(f, D \ {x})
Mapped == Sum([v \in VolIds |-> img[v].maps], VolIds)
          + Sum([s \in SnapIds |-> snp[s].maps], SnapIds)

\* rbdCreateVolume: a new image under a name not used before
CreateVolume ==
    /\ Idle /\ FreeVols # {}
    /\ img' = [img EXCEPT ![Least(FreeVols)] =
                   [used |-> TRUE, ex |-> TRUE, z |-> FALSE, parent |-> 0, maps |-> 0]]
    /\ prev' = NoPrev
    /\ UNCHANGED <<snp, stack, call, pre, log, faults, sub>>

\* rbdCreateVolumeSnapshot: a read-write snapshot of a volume in use
CreateSnapshot(v) ==
    /\ Idle /\ FreeSnaps # {} /\ v \in LiveVols
    /\ snp' = [snp EXCEPT ![Least(FreeSnaps)] =
                   [used |-> TRUE, ex |-> TRUE, vol |-> v, z |-> FALSE,
                    prot |-> FALSE, maps |-> 0]]
    /\ prev' = NoPrev
    /\ UNCHANGED <<img, stack, call, pre, log, faults, sub>>

\* rbdProtectVolumeSnapshot then rbdCreateClone: a new image whose parent
\* pointer is the snapshot
CreateClone(s) ==
    /\ Idle /\ FreeVols # {} /\ s \in LiveSnaps
    /\ snp' = [snp EXCEPT ![s].prot = TRUE]
    /\ img' = [img EXCEPT ![Least(FreeVols)] =
                   [used |-> TRUE, ex |-> TRUE, z |-> FALSE, parent |-> s, maps |-> 0]]
    /\ prev' = NoPrev
    /\ UNCHANGED <<stack, call, pre, log, faults, sub>>

\* rbdMapVolume: one more kernel mapping of a volume in use
MapVolume(v) ==
    /\ Idle /\ v \in LiveVols /\ Mapped < MaxMaps
    /\ img' = [img EXCEPT ![v].maps = @ + 1]
    /\ prev' = NoPrev
    /\ UNCHANGED <<snp, stack, call, pre, log, faults, sub>>

\* rbdMapVolume on a snapshot volume
MapSnapshot(s) ==
    /\ Idle /\ s \in LiveSnaps /\ Mapped < MaxMaps
    /\ snp' = [snp EXCEPT ![s].maps = @ + 1]
    /\ prev' = NoPrev
    /\ UNCHANGED <<img, stack, call, pre, log, faults, sub>>

Begin(fn, vh, sh, pc, retry) ==
    /\ stack' = <<Frame(fn, "top", vh, sh, pc)>>
    /\ call' = [st |-> "running", fn |-> fn, vol |-> vh, snap |-> sh, ret |-> 0,
                err |-> FALSE, frame |-> NoFrame, retry |-> retry]
    /\ pre' = [img |-> img, snp |-> snp]
    /\ log' = <<>>
    /\ prev' = IF retry THEN prev ELSE NoPrev
    /\ UNCHANGED <<img, snp, faults, sub>>

\* the caller deletes a volume it knows by name
CallDeleteVolume(v) ==
    /\ Idle /\ img[v].ex
    /\ Begin("dv", VolHandle(img, v), NoHandle, "ls", FALSE)

\* the caller deletes a snapshot it knows by name
CallDeleteVolumeSnapshot(s) ==
    /\ Idle /\ snp[s].ex
    /\ Begin("dvs", VolHandle(img, snp[s].vol), SnapHandle(snp, s), "children", FALSE)

\* the caller, having deleted a clone, deletes the snapshot the clone came
\* from, under the name the snapshot had before the clone was deleted
CallDeleteParentSnapshot ==
    /\ Idle /\ prev.fn = "dv" /\ prev.ret = RetDeleted /\ prev.psnap # NoHandle
    /\ Begin("dvs", prev.pvol, prev.psnap, "children", TRUE)

\* the caller takes the result
Ack ==
    /\ call.st = "returned"
    /\ prev' = [fn |-> call.fn, vol |-> call.vol, ret |-> call.ret,
                pvol |-> IF call.fn = "dv" /\ pre.img[call.vol.id].parent # 0
                         THEN parseParent(pre.img, pre.snp, pre.img[call.vol.id].parent).vol
                         ELSE NoHandle,
                psnap |-> IF call.fn = "dv" /\ pre.img[call.vol.id].parent # 0
                          THEN parseParent(pre.img, pre.snp, pre.img[call.vol.id].parent).snap
                          ELSE NoHandle,
                pool |-> pre]
    /\ call' = NoCall
    /\ pre' = NoPool
    /\ log' = <<>>
    /\ UNCHANGED <<img, snp, stack, faults, sub>>

Init ==
    /\ img = [v \in 1..MaxVols |-> NoImg]
    /\ snp = [s \in 1..MaxSnaps |-> NoSnp]
    /\ stack = <<>>
    /\ call = NoCall
    /\ pre = NoPool
    /\ log = <<>>
    /\ prev = NoPrev
    /\ faults = 0
    /\ sub = NoSub

Next ==
    \/ CreateVolume
    \/ \E v \in VolIds : CreateSnapshot(v)
    \/ \E s \in SnapIds : CreateClone(s)
    \/ \E v \in VolIds : MapVolume(v)
    \/ \E s \in SnapIds : MapSnapshot(s)
    \/ \E v \in VolIds : CallDeleteVolume(v)
    \/ \E s \in SnapIds : CallDeleteVolumeSnapshot(s)
    \/ CallDeleteParentSnapshot
    \/ Ack
    \/ DvListSnapshots \/ DvSnapshotLoop \/ DvZombieUnmap \/ DvMarkDeleted
    \/ DvDeleteAfterSnapshots \/ DvGetParent \/ DvUnmap \/ DvDelete
    \/ DvsListClones \/ DvsCloneLoop \/ DvsUnprotect \/ DvsUnmap \/ DvsDelete
    \/ DvsZombieUnmap \/ DvsRename

Spec == Init /\ [][Next]_vars

\* a call that was started runs to its return statement: the functions are
\* sequential Go code and each rbd command comes back
Step ==
    \/ DvListSnapshots \/ DvSnapshotLoop \/ DvZombieUnmap \/ DvMarkDeleted
    \/ DvDeleteAfterSnapshots \/ DvGetParent \/ DvUnmap \/ DvDelete
    \/ DvsListClones \/ DvsCloneLoop \/ DvsUnprotect \/ DvsUnmap \/ DvsDelete
    \/ DvsZombieUnmap \/ DvsRename
SpecLive == Spec /\ WF_vars(Step)

\* the same program against a backend where rbd commands can fail
\* (network, availability): subprocess.RunCommand returns an error
InitF ==
    /\ img = [v \in 1..MaxVols |-> NoImg]
    /\ snp = [s \in 1..MaxSnaps |-> NoSnp]
    /\ stack = <<>>
    /\ call = NoCall
    /\ pre = NoPool
    /\ log = <<>>
    /\ prev = NoPrev
    /\ faults = MaxFaults
    /\ sub = NoSub
SpecF == InitF /\ [][Next]_vars

\* ---- pools of sparse copies ----
\* Pools built by rbdCreateVolumeSnapshot, rbdProtectVolumeSnapshot and
\* rbdCreateClone before any deletion.
\* Star: one volume with DeepClones snapshots; every snapshot is protected
\* and cloned once, and every clone has one snapshot of its own.  Volume 1
\* is the origin, volume i + 1 the clone of snapshot i, snapshot
\* DeepClones + i the snapshot of that clone.
DeepImg ==
    [v \in 1..(DeepClones + 1) |->
        [used |-> TRUE, ex |-> TRUE, z |-> FALSE,
         parent |-> IF v = 1 THEN 0 ELSE v - 1, maps |-> 0]]
DeepSnp ==
    [s \in 1..(2 * DeepClones) |->
        [used |-> TRUE, ex |-> TRUE, vol |-> IF s <= DeepClones THEN 1 ELSE s - DeepClones + 1,
         z |-> FALSE, prot |-> s <= DeepClones, maps |-> 0]]

\* Chain: every volume has one snapshot, and volume i + 1 is the clone of
\* the snapshot of volume i; the last snapshot has no clone.
ChainImg ==
    [v \in 1..(DeepClones + 1) |->
        [used |-> TRUE, ex |-> TRUE, z |-> FALSE, parent |-> v - 1, maps |-> 0]]
ChainSnp ==
    [s \in 1..(DeepClones + 1) |->
        [used |-> TRUE, ex |-> TRUE, vol |-> s, z |-> FALSE,
         prot |-> s <= DeepClones, maps |-> 0]]

InitDeep ==
    /\ \E pool \in {<<DeepImg, DeepSnp>>, <<ChainImg, ChainSnp>>} :
          img = pool[1] /\ snp = pool[2]
    /\ stack = <<>>
    /\ call = NoCall
    /\ pre = NoPool
    /\ log = <<>>
    /\ prev = NoPrev
    /\ faults = 0
    /\ sub = NoSub

\* only deletions happen to the pool of sparse copies
NextDeep ==
    \/ \E v \in VolIds : CallDeleteVolume(v)
    \/ \E s \in SnapIds : CallDeleteVolumeSnapshot(s)
    \/ CallDeleteParentSnapshot
    \/ Ack
    \/ DvListSnapshots \/ DvSnapshotLoop \/ DvZombieUnmap \/ DvMarkDeleted
    \/ DvDeleteAfterSnapshots \/ DvGetParent \/ DvUnmap \/ DvDelete
    \/ DvsListClones \/ DvsCloneLoop \/ DvsUnprotect \/ DvsUnmap \/ DvsDelete
    \/ DvsZombieUnmap \/ DvsRename

SpecDeep == InitDeep /\ [][NextDeep]_vars

\* ======================= properties =======================
Returned == call.st = "returned"
LiveClones(I, s) == {c \in ClonesOf(I, s) : ~I[c].z}

\* C1: deleteVolumeSnapshot(V,S) on a protected snapshot S whose clones are
\* live volumes returns Zombified (1); S is still there and now carries a
\* zombie name; V is exactly as it was (not deleted, not renamed).
C1_CloneCase ==
    /\ call.fn = "dvs" /\ ~call.retry
    /\ pre.snp[call.snap.id].prot
    /\ ClonesOf(pre.img, call.snap.id) # {}
    /\ LiveClones(pre.img, call.snap.id) = ClonesOf(pre.img, call.snap.id)
C1_SnapshotWithLiveCloneIsZombified ==
    (Returned /\ C1_CloneCase) =>
        /\ call.ret = RetZombified /\ ~call.err
        /\ snp[call.snap.id].ex /\ snp[call.snap.id].z
        /\ img[call.vol.id] = pre.img[call.vol.id]
C1_Witness ==
    /\ Returned /\ C1_CloneCase
    /\ ~call.snap.z /\ snp[call.snap.id].z
    /\ call.ret = RetZombified

\* C2: every deleteVolume activation started by the clone loop of
\* deleteVolumeSnapshot is on a zombie-named clone, so a clone without the
\* zombie_ prefix is never unmapped, deleted or renamed by the cascade; and
\* no step removes a snapshot that still has a clone without the prefix.
C2_CascadeOnlyZombieClones ==
    \A i \in DOMAIN stack : stack[i].via = "cloneloop" => stack[i].vol.z
C2_NoSnapshotRemovedUnderLiveClone ==
    \A s \in SnapIds : (snp[s].ex /\ ~snp'[s].ex) => LiveClones(img, s) = {}
C2_LiveCloneBlocks ==
    [](C2_CascadeOnlyZombieClones) /\ [][C2_NoSnapshotRemovedUnderLiveClone]_vars
C2_Witness ==
    /\ At("dvs", "cloop")
    /\ \E i \in 1..Len(Top.list) : i < Top.i /\ ~Top.list[i].z
    /\ ~Top.canDelete

\* C3: deleteVolume on a snapshot-free clone revisits the parent snapshot
\* only if the parent volume is a zombie or the parent snapshot is
\* zombie-named; with a live parent every command of the call is on the
\* clone itself. And no step removes or renames a volume without the
\* zombie_ prefix unless it is the volume deleteVolume was called on.
C3_ParentCascadeOnlyZombie ==
    \A i \in DOMAIN stack : stack[i].via = "parent" => (stack[i].vol.z \/ stack[i].snap.z)
C3_LiveParentCase ==
    /\ call.fn = "dv"
    /\ SnapsOf(pre.snp, call.vol.id) = {}
    /\ pre.img[call.vol.id].parent # 0
    /\ ~pre.snp[pre.img[call.vol.id].parent].z
    /\ ~pre.img[pre.snp[pre.img[call.vol.id].parent].vol].z
C3_LiveParentUntouched ==
    (call.st # "idle" /\ C3_LiveParentCase) =>
        /\ \A i \in DOMAIN log : log[i].v = call.vol.id /\ log[i].s = 0
        /\ \A v \in VolIds \ {call.vol.id} : img[v] = pre.img[v]
        /\ snp = pre.snp
C3_OnlyOwnLiveVolumeChanges ==
    \A v \in VolIds :
        (img[v].ex /\ ~img[v].z /\ (~img'[v].ex \/ img'[v].z))
            => (call.fn = "dv" /\ call.vol.id = v)
C3_LiveParentsLeftAlone ==
    /\ [](C3_ParentCascadeOnlyZombie /\ C3_LiveParentUntouched)
    /\ [][C3_OnlyOwnLiveVolumeChanges]_vars
C3_Witness ==
    /\ Returned /\ C3_LiveParentCase
    /\ call.ret = RetDeleted /\ ~img[call.vol.id].ex
    /\ snp[pre.img[call.vol.id].parent].ex

\* C4: a deleteVolume call whose snapshot loop ran to its end with at least
\* one snapshot answering Zombified returns Zombified (1); the volume is
\* still there, has no kernel mapping left and carries the zombie prefix;
\* it was renamed once if it was not a zombie and not at all if it was.
Count(op, v) == Cardinality({i \in DOMAIN log : log[i].op = op /\ log[i].v = v})
C4_ZombiesCase ==
    /\ call.fn = "dv"
    /\ call.frame.list # <<>> /\ call.frame.i > Len(call.frame.list)
    /\ call.frame.zombies > 0
C4_VolumeWithZombieSnapshotIsZombified ==
    (Returned /\ C4_ZombiesCase) =>
        /\ call.ret = RetZombified /\ ~call.err
        /\ img[call.vol.id].ex /\ img[call.vol.id].z /\ img[call.vol.id].maps = 0
        /\ Count("mv", call.vol.id) = (IF call.vol.z THEN 0 ELSE 1)
C4_Witness ==
    /\ Returned /\ C4_ZombiesCase
    /\ ~call.vol.z /\ img[call.vol.id].z /\ pre.img[call.vol.id].maps > 0
C4_WitnessAlreadyZombie ==
    /\ Returned /\ C4_ZombiesCase /\ call.vol.z /\ call.ret = RetZombified

\* C5: deleteVolume on a volume that has snapshots, none of them with a
\* clone, removes every snapshot and the volume and returns Deleted (0)
\* with no error, whether or not the volume is a zombie.
C5_NoClonesCase ==
    /\ call.fn = "dv"
    /\ SnapsOf(pre.snp, call.vol.id) # {}
    /\ \A s \in SnapsOf(pre.snp, call.vol.id) : ClonesOf(pre.img, s) = {}
C5_CloneFreeVolumeIsDeleted ==
    (Returned /\ C5_NoClonesCase) =>
        /\ call.ret = RetDeleted /\ ~call.err
        /\ ~img[call.vol.id].ex
        /\ \A s \in SnapsOf(pre.snp, call.vol.id) : ~snp[s].ex

\* C6: deleteVolumeSnapshot on a snapshot whose clones are all zombies that
\* deleteVolume removes (none blocks) unprotects, unmaps and deletes the
\* snapshot, deletes the owning volume too if it is a zombie, and returns
\* Deleted (0) with no error.
C6_AllClonesRemovedCase ==
    /\ call.fn = "dvs" /\ ~call.retry
    /\ ClonesOf(pre.img, call.snap.id) # {}
    /\ \A c \in ClonesOf(pre.img, call.snap.id) : pre.img[c].z /\ ~img[c].ex
C6_SnapshotDeletedAfterZombieClones ==
    (Returned /\ C6_AllClonesRemovedCase) =>
        /\ call.ret = RetDeleted /\ ~call.err
        /\ ~snp[call.snap.id].ex
        /\ call.vol.z => ~img[call.vol.id].ex

\* C7 (as stated): S of V was zombified because of its clone C; after
\* deleteVolume(C) returned Deleted (C a zombie without snapshots), a
\* subsequent deleteVolumeSnapshot(V,S) returns Deleted, and V is removed
\* too if it is a zombie.
C7_Continuation ==
    /\ call.fn = "dvs" /\ call.retry
    /\ prev.fn = "dv" /\ prev.ret = RetDeleted /\ prev.vol.z
    /\ SnapsOf(prev.pool.snp, prev.vol.id) = {}
    /\ prev.psnap.z
    /\ ClonesOf(prev.pool.img, prev.psnap.id) = {prev.vol.id}
C7_LastCloneCase ==
    /\ call.fn = "dv" /\ call.vol.z
    /\ SnapsOf(pre.snp, call.vol.id) = {}
    /\ pre.img[call.vol.id].parent # 0
    /\ pre.snp[pre.img[call.vol.id].parent].z
    /\ ClonesOf(pre.img, pre.img[call.vol.id].parent) = {call.vol.id}
C8_ZombieLostLastDependent ==
    \/ \E s \in SnapIds :
          /\ pre.snp[s].ex /\ pre.snp[s].z /\ ClonesOf(pre.img, s) # {}
          /\ snp[s].ex /\ ClonesOf(img, s) = {}
    \/ \E v \in VolIds :
          /\ pre.img[v].ex /\ pre.img[v].z /\ SnapsOf(pre.snp, v) # {}
          /\ img[v].ex /\ SnapsOf(snp, v) = {}
C8_ZombiesPurgedEagerly ==
    (Returned /\ call.ret # RetFailed) => ~C8_ZombieLostLastDependent

\* C9: delete on a zombie leaf (a zombie volume without snapshots, or a
\* zombie-named snapshot without clones) ends with the entity removed and
\* the result Deleted (0), never Zombified.
C9_ZombieLeafCase ==
    \/ /\ call.fn = "dv" /\ call.vol.z
       /\ SnapsOf(pre.snp, call.vol.id) = {}
    \/ /\ call.fn = "dvs" /\ ~call.retry /\ call.snap.z
       /\ ClonesOf(pre.img, call.snap.id) = {}
C9_ZombieLeafIsDeleted ==
    (Returned /\ C9_ZombieLeafCase) =>
        /\ call.ret = RetDeleted /\ ~call.err
        /\ call.fn = "dv" => ~img[call.vol.id].ex
        /\ call.fn = "dvs" => ~snp[call.snap.id].ex

\* C10: every call of deleteVolume / deleteVolumeSnapshot returns; a
\* recursive call that climbs to a parent snapshot or to the owning volume
\* is made in the step that physically removed an entity; and a rename
\* into zombie form is only ever applied to an entity that is not a zombie.
C10_ClimbFollowsRemoval ==
    (Len(stack') > Len(stack) /\ Len(stack) > 0
        /\ stack'[Len(stack')].via \in {"parent", "volume"})
    => \/ \E v \in VolIds : img[v].ex /\ ~img'[v].ex
       \/ \E s \in SnapIds : snp[s].ex /\ ~snp'[s].ex
C10_RenameOnce ==
    (Len(log') = Len(log) + 1 /\ log'[Len(log')].rc = "ok") =>
        /\ log'[Len(log')].op = "mv" => ~img[log'[Len(log')].v].z
        /\ log'[Len(log')].op = "snap_rename" => ~snp[log'[Len(log')].s].z
C10_RecursionTerminates ==
    /\ (call.st = "running") ~> (call.st = "returned")
    /\ [][C10_ClimbFollowsRemoval /\ C10_RenameOnce]_vars
C10_Witness ==
    /\ Returned /\ call.ret = RetZombified
    /\ \E i, j, k \in DOMAIN log :
          /\ i < j /\ j < k
          /\ log[i].op = "rm" /\ log[i].rc = "ok"
          /\ log[j].op = "snap_rm" /\ log[j].rc = "ok"
          /\ log[k].op = "mv" /\ log[k].rc = "ok"

\* C11: when deleteVolumeSnapshot has removed its snapshot and the owning
\* volume is a zombie, a failure of the cascaded deleteVolume(vol) leaves
\* the result of the snapshot call at Deleted (0).
C11_CascadeFailedCase ==
    /\ call.fn = "dvs" /\ ~call.retry /\ call.vol.z
    /\ call.frame.pc = "vol_wait"
    /\ log # <<>> /\ log[Len(log)].rc = "err"
C11_CascadeFailureKeepsDeleted ==
    (Returned /\ C11_CascadeFailedCase) =>
        /\ ~snp[call.snap.id].ex
        /\ call.ret = RetDeleted /\ ~call.err

\* C12: a failure other than NotFound of "rbd snap ls", "rbd children" or
\* "rbd info" is not taken for an absent entity: it is the last command of
\* the call (no unmap, unprotect, rm or rename follows it) and the call
\* returns Failed (-1) with the error.
C12_Listings == {"snap_ls", "children", "info"}
C12_ListingFailed(i) == log[i].op \in C12_Listings /\ log[i].rc = "err"
C12_ListingFailureIsFailed ==
    \A i \in 1..Len(log) :
        C12_ListingFailed(i) =>
            /\ i = Len(log)
            /\ Returned /\ call.ret = RetFailed /\ call.err
C12_Witness ==
    /\ Returned /\ Len(log) > 1 /\ faults < MaxFaults
    /\ C12_ListingFailed(Len(log))
    /\ call.ret = RetFailed /\ call.err

\* C13: when a command fails inside a recursive call of the snapshot walk or
\* the clone walk, every enclosing call returns at once: the failed command
\* is the last one issued (no further sibling is visited), the outermost
\* call returns Failed (-1) with the error, and what was removed or renamed
\* before the failure stays so.
C13_Walks == {"loop_wait", "clone_wait"}
C13_ProgressKept ==
    \A i \in 1..Len(log) :
        log[i].rc = "ok" =>
            /\ log[i].op = "rm" => ~img[log[i].v].ex
            /\ log[i].op = "snap_rm" => ~snp[log[i].s].ex
            /\ log[i].op = "mv" => img[log[i].v].z
            /\ log[i].op = "snap_rename" => snp[log[i].s].z
C13_FailurePropagates ==
    \A i \in 1..Len(log) :
        log[i].rc = "err" =>
            /\ i = Len(log)
            /\ stack = <<>> /\ Returned
            /\ call.ret = RetFailed /\ call.err
            /\ C13_ProgressKept
C13_Witness ==
    /\ Returned /\ call.ret = RetFailed /\ call.err
    /\ call.frame.pc \in C13_Walks
    /\ call.frame.i < Len(call.frame.list)
    /\ log[Len(log)].rc = "err"
    /\ \E i \in 1..Len(log) : log[i].op \in {"rm", "snap_rm"} /\ log[i].rc = "ok"

\* ============ rbdUnmapVolume and rbdUnmapVolumeSnapshot ============
\* The two helpers run one "rbd unmap" command per step.  sub holds the call:
\*   fn, flag        which helper, and its unmapUntilEINVAL argument
\*   maps, busy, fault   the backend: mappings stacked on the target, EBUSY
\*                   answers and other failures it may still give
\*   busyCount, ourDeactivate, pc, err   the helper's variables, its
\*                   position and the error it returned (0: nil)
\*   attempts, repeats, lead, late, oks, faulted, via, maps0, nth, first, gone
\*                   the history of the call, for the properties
\* exit codes of "rbd unmap" the helpers look at
EINVAL == 22
EBUSY == 16
\* any other non-zero exit
EFAIL == 1
\* "if busyCount == 10 { return err }"
BusyLimit == 10

\* "if exitError.ExitCode() == 22 { return nil }"
AlreadyUnmapped_Never(exit) == FALSE
AlreadyUnmapped(exit) == exit = EINVAL
\* "if exitError.ExitCode() == 16"
InUse(exit) == exit = EBUSY
\* "busyCount++; if busyCount == 10"
GiveUp_Never(n) == FALSE
GiveUp_AtNine(n) == n = BusyLimit - 1
GiveUp(n) == n = BusyLimit
\* "if unmapUntilEINVAL { goto again }"
UntilEINVAL_Never(flag) == FALSE
UntilEINVAL(flag) == flag

\* a holder that never lets go of the device: EBUSY as often as it is asked
Forever == MaxBusy + 1
\* no call runs more commands than this: 9 tolerated EBUSY, one success per
\* stacked mapping, and the command that ends the loop, plus one to spare
MaxCommands == BusyLimit + MaxStack + 1

\* what the kernel and the tool can answer to "rbd unmap": EINVAL when the
\* target is not mapped; when it is, the mapping is removed unless a holder
\* keeps the device busy; any command can fail for an outside reason
UnmapExits(s) ==
    (IF s.maps = 0 THEN {EINVAL}
     ELSE {0} \cup (IF s.busy > 0 THEN {EBUSY} ELSE {}))
    \cup (IF s.fault > 0 THEN {EFAIL} ELSE {})

\* the state after the command came back with this exit code
Answered(s, exit) ==
    [s EXCEPT !.maps = IF exit = 0 THEN @ - 1 ELSE @,
              !.busy = IF exit = EBUSY /\ s.busy # Forever THEN @ - 1 ELSE @,
              !.fault = IF exit = EFAIL THEN @ - 1 ELSE @,
              !.attempts = @ + 1,
              !.repeats = IF s.ourDeactivate THEN @ + 1 ELSE @,
              !.lead = IF exit = EBUSY /\ s.attempts = s.lead THEN @ + 1 ELSE @,
              !.late = IF exit = EBUSY /\ s.attempts # s.lead THEN @ + 1 ELSE @,
              !.oks = IF exit = 0 THEN @ + 1 ELSE @,
              !.gone = IF exit = 0 THEN @ + 1 ELSE @,
              !.faulted = @ \/ exit = EFAIL]

ReturnNil(s, via) == [s EXCEPT !.pc = "returned", !.err = 0, !.via = via]
ReturnErr(s, exit) == [s EXCEPT !.pc = "returned", !.err = exit, !.via = "err"]

\* a call of one of the helpers: "busyCount := 0", "ourDeactivate := false"
UnmapCall(fn, flag, maps, busy, fault, nth, first) ==
    [m |-> "unmap", fn |-> fn, flag |-> flag,
     maps |-> maps, busy |-> busy, fault |-> fault,
     busyCount |-> 0, ourDeactivate |-> FALSE, pc |-> "again", err |-> 0,
     attempts |-> 0, repeats |-> 0, lead |-> 0, late |-> 0, oks |-> 0,
     faulted |-> FALSE, via |-> "none", maps0 |-> maps, nth |-> nth, first |-> first,
     gone |-> 0]

UnmapRunning(fn) ==
    /\ sub.m = "unmap" /\ sub.fn = fn /\ sub.pc = "again"
    /\ sub.attempts < MaxCommands
UnmapReturned == sub.m = "unmap" /\ sub.pc = "returned"

CallUnmap ==
    /\ sub.m = "none"
    /\ \E fn \in {"rbdUnmapVolume", "rbdUnmapVolumeSnapshot"}, flag \in BOOLEAN,
          maps \in 0..MaxStack, busy \in 0..Forever, fault \in 0..MaxFaults :
          sub' = UnmapCall(fn, flag, maps, busy, fault, 1, 0)
    /\ UNCHANGED <<img, snp, stack, call, pre, log, prev, faults>>

\* "ourDeactivate = true; goto again": busyCount is left as it is
Unmapped_Reset(s) == [s EXCEPT !.ourDeactivate = TRUE, !.busyCount = 0]
Unmapped(s) == [s EXCEPT !.ourDeactivate = TRUE]

\* rbdUnmapVolume, from the label "again" to the next goto or return
UnmapVolumeAgain ==
    /\ UnmapRunning("rbdUnmapVolume")
    /\ \E exit \in UnmapExits(sub) :
         LET s == Answered(sub, exit)
             b == [s EXCEPT !.busyCount = @ + 1]
         IN  sub' = IF exit # 0
                    THEN IF AlreadyUnmapped(exit) THEN ReturnNil(s, "einval")
                         ELSE IF InUse(exit)
                         THEN IF GiveUp(b.busyCount) THEN ReturnErr(b, exit) ELSE b
                         ELSE ReturnErr(s, exit)
                    ELSE IF UntilEINVAL(s.flag) THEN Unmapped(s)
                    ELSE ReturnNil(s, "plain")
    /\ UNCHANGED <<img, snp, stack, call, pre, log, prev, faults>>

\* rbdUnmapVolumeSnapshot, from the label "again" to the next goto or return
UnmapVolumeSnapshotAgain ==
    /\ UnmapRunning("rbdUnmapVolumeSnapshot")
    /\ \E exit \in UnmapExits(sub) :
         LET s == Answered(sub, exit)
         IN  sub' = IF exit # 0
                    THEN IF AlreadyUnmapped(exit) THEN ReturnNil(s, "einval")
                         ELSE ReturnErr(s, exit)
                    ELSE IF UntilEINVAL(s.flag) THEN [s EXCEPT !.ourDeactivate = TRUE]
                    ELSE ReturnNil(s, "plain")
    /\ UNCHANGED <<img, snp, stack, call, pre, log, prev, faults>>

\* the caller unmaps the same target once more, straight away
CallUnmapAgain ==
    /\ UnmapReturned /\ sub.nth = 1
    /\ \E flag \in BOOLEAN :
          sub' = [UnmapCall(sub.fn, flag, sub.maps, sub.busy, sub.fault, 2, sub.err)
                      EXCEPT !.gone = sub.gone]
    /\ UNCHANGED <<img, snp, stack, call, pre, log, prev, faults>>

\* the caller is done with the target
UnmapDone ==
    /\ UnmapReturned
    /\ sub' = NoSub
    /\ UNCHANGED <<img, snp, stack, call, pre, log, prev, faults>>

NextUnmap ==
    \/ CallUnmap
    \/ UnmapVolumeAgain
    \/ UnmapVolumeSnapshotAgain
    \/ CallUnmapAgain
    \/ UnmapDone
SpecUnmap == Init /\ [][NextUnmap]_vars
\* a helper that has not returned runs its next command, and the command
\* comes back
SpecUnmapLive ==
    SpecUnmap /\ WF_vars(UnmapVolumeAgain) /\ WF_vars(UnmapVolumeSnapshotAgain)

\* C14: a call of rbdUnmapVolume whose first 9 commands are answered EBUSY,
\* and that meets no EBUSY or outside failure afterwards, returns nil after
\* a command that succeeded, with busyCount below the cap and no more than
\* the cap of 10 commands issued in its retry loop (the commands repeated
\* for unmapUntilEINVAL not counted); a call whose first 10 commands are
\* all answered EBUSY returns that error after the 10th.
C14_NineBusy ==
    /\ sub.lead = BusyLimit - 1
    /\ sub.late = 0 /\ ~sub.faulted
C14_BusyRetryCap ==
    (sub.m = "unmap" /\ sub.fn = "rbdUnmapVolume") =>
        /\ (C14_NineBusy /\ UnmapReturned) =>
               /\ sub.oks >= 1 /\ sub.err = 0
               /\ sub.busyCount < BusyLimit
               /\ sub.attempts - sub.repeats <= BusyLimit
        /\ sub.lead = BusyLimit =>
               /\ UnmapReturned /\ sub.err = EBUSY
               /\ sub.attempts = BusyLimit
C14_Witness ==
    /\ UnmapReturned /\ sub.fn = "rbdUnmapVolume"
    /\ sub.nth = 2 /\ sub.first = EBUSY
    /\ C14_NineBusy /\ sub.oks >= 1 /\ sub.err = 0 /\ sub.flag

\* C15: a second unmap of a target that a first, successful unmap left
\* without a mapping returns nil: its command is answered EINVAL (22), which
\* both rbdUnmapVolume and rbdUnmapVolumeSnapshot turn into success, with
\* unmapUntilEINVAL set or not.
C15_SecondCallCase ==
    /\ sub.m = "unmap" /\ sub.nth = 2
    /\ sub.first = 0 /\ sub.maps0 = 0 /\ ~sub.faulted
C15_SecondUnmapSucceeds ==
    (C15_SecondCallCase /\ UnmapReturned) =>
        /\ sub.err = 0 /\ sub.via = "einval"
        /\ sub.attempts = 1
C15_Witness ==
    /\ C15_SecondCallCase /\ UnmapReturned
    /\ sub.fn = "rbdUnmapVolumeSnapshot" /\ ~sub.flag
    /\ sub.gone >= 1 /\ sub.err = 0
C15_WitnessVolume ==
    /\ C15_SecondCallCase /\ UnmapReturned
    /\ sub.fn = "rbdUnmapVolume" /\ sub.flag
    /\ sub.gone >= 1 /\ sub.err = 0

\* C16: with unmapUntilEINVAL set, rbdUnmapVolume and rbdUnmapVolumeSnapshot
\* return nil only from the EINVAL (22) branch, that is after a command
\* found the target not mapped: whatever the number of stacked mappings at
\* the call, none is left when the call returns nil.
C16_UntilCase ==
    /\ UnmapReturned /\ sub.flag /\ sub.err = 0
C16_NoMappingLeft ==
    C16_UntilCase =>
        /\ sub.via = "einval"
        /\ sub.maps = 0
        /\ sub.oks = sub.maps0 /\ sub.attempts > sub.maps0
C16_Witness ==
    /\ C16_UntilCase
    /\ sub.maps0 = MaxStack /\ sub.maps = 0
    /\ sub.fn = "rbdUnmapVolumeSnapshot"

\* C17: an unmap helper, rbdUnmapVolume or rbdUnmapVolumeSnapshot, returns
\* the EBUSY error only after the cap of commands answered EBUSY: a busy
\* device is retried before the error is surfaced.
C17_BusySurfaced == UnmapReturned /\ sub.err = EBUSY
C17_BusyIsRetried ==
    C17_BusySurfaced => sub.lead + sub.late = BusyLimit
C17_VolumeBusyIsRetried ==
    (C17_BusySurfaced /\ sub.fn = "rbdUnmapVolume") =>
        sub.lead + sub.late = BusyLimit

\* ====================== getRBDMappedDevPath ======================
\* The kernel's registry /sys/devices/rbd is a sequence of directory
\* entries in the order os.ReadDir lists them.  An entry is
\*   kind  "file": not a directory; "word": a directory whose name is not a
\*         number; "dev": the directory of device /dev/rbd<idx>
\*   pool, name, snap   what reading the files pool, name and current_snap
\*         gives, after strings.TrimSpace: "absent" (fs.ErrNotExist), "eio"
\*         (any other read error) or the content
\* The device index of an entry is its position in the sequence.
\* The lookup is for an image of the pool "ours": the live volume
\* (snap = "none") or one of its snapshots.
Pools == {"absent", "eio", "ours", "other"}
Names == {"absent", "eio", "v1", "v2"}
SnapNames == {"s1", "s2"}
Snaps == {"absent", "eio", "", "-"} \cup SnapNames
\* files that are never read are left "absent"
DevEntries ==
    {e \in [kind : {"file", "word", "dev"}, pool : Pools, name : Names, snap : Snaps] :
        /\ e.kind # "dev" => e.pool = "absent"
        /\ e.pool # "ours" => e.name = "absent"
        /\ e.name \in {"absent", "eio"} => e.snap = "absent"}
Registries == UNION {[1..n -> DevEntries] : n \in 0..MaxDevs}
Targets == [name : {"v1"}, snap : {"none"} \cup SnapNames]

\* vol.IsSnapshot()
IsSnapshot(vol) == vol.snap # "none"
\* strings.SplitN(d.getRBDVolumeName(vol, "", false), "@", 2)
rbdNameParts(vol) == IF IsSnapshot(vol) THEN <<vol.name, vol.snap>> ELSE <<vol.name>>
\* devSnapName := strings.TrimSpace(string(devSnap)); a missing file reads as ""
devSnapName(e) == IF e.snap = "absent" THEN "" ELSE e.snap
\* the test on current_snap that ends the loop body
SnapshotMatches_Any(vol, e) == TRUE
SnapshotMatches(vol, e) ==
    IF IsSnapshot(vol)
    THEN Len(rbdNameParts(vol)) = 2 /\ rbdNameParts(vol)[2] = devSnapName(e)
    ELSE devSnapName(e) \in {"-", ""}
\* "if mapIfMissing"
MapWhenMissing_Always(flag) == TRUE
MapWhenMissing(flag) == flag

\* one pass of the loop body over entry e: "continue", return the device,
\* or return the error of a read
ScanEntry(vol, e) ==
    IF e.kind # "dev" THEN "continue"
    ELSE IF e.pool = "absent" THEN "continue"
    ELSE IF e.pool = "eio" THEN "error"
    ELSE IF e.pool # "ours" THEN "continue"
    ELSE IF e.name = "absent" THEN "continue"
    ELSE IF e.name = "eio" THEN "error"
    ELSE IF e.name # rbdNameParts(vol)[1] THEN "continue"
    ELSE IF e.snap = "eio" THEN "error"
    ELSE IF SnapshotMatches(vol, e) THEN "found"
    ELSE "continue"

NoPath == 0
DevPathResult(mapped, path, err) == [mapped |-> mapped, path |-> path, err |-> err]
DevPathReturn(s, r) == [s EXCEPT !.pc = "returned", !.ret = r]
DevPathAt(pc) == sub.m = "devpath" /\ sub.pc = pc

\* the call, and files, err := os.ReadDir("/sys/devices/rbd"); a missing
\* directory is an empty registry
CallGetRBDMappedDevPath ==
    /\ sub.m = "none"
    /\ \E vol \in Targets, flag \in BOOLEAN, reg \in Registries, readdir \in {"ok", "eio"} :
         LET s == [m |-> "devpath", vol |-> vol, mapIfMissing |-> flag,
                   reg |-> reg, reg0 |-> reg, i |-> 1, pc |-> "scan",
                   ret |-> DevPathResult(FALSE, NoPath, "nil"), maps |-> 0]
         IN  sub' = IF readdir = "eio"
                    THEN DevPathReturn(s, DevPathResult(FALSE, NoPath, "io"))
                    ELSE s
    /\ UNCHANGED <<img, snp, stack, call, pre, log, prev, faults>>

\* for _, f := range files { ... }
DevPathScan ==
    /\ DevPathAt("scan")
    /\ sub' = IF sub.i > Len(sub.reg)
              THEN IF MapWhenMissing(sub.mapIfMissing)
                   THEN [sub EXCEPT !.pc = "map"]
                   ELSE DevPathReturn(sub, DevPathResult(FALSE, NoPath, "notmapped"))
              ELSE CASE ScanEntry(sub.vol, sub.reg[sub.i]) = "continue" ->
                          [sub EXCEPT !.i = @ + 1]
                     [] ScanEntry(sub.vol, sub.reg[sub.i]) = "error" ->
                          DevPathReturn(sub, DevPathResult(FALSE, NoPath, "io"))
                     [] ScanEntry(sub.vol, sub.reg[sub.i]) = "found" ->
                          DevPathReturn(sub, DevPathResult(FALSE, sub.i, "nil"))
    /\ UNCHANGED <<img, snp, stack, call, pre, log, prev, faults>>

\* devPath, err := d.rbdMapVolume(vol): "rbd map" fails, or maps the target
\* to a new device and prints its path, or maps it and prints something
\* rbdMapVolume finds no "/dev/rbd" in
DevPathMap ==
    /\ DevPathAt("map")
    /\ \E out \in {"fail", "path", "other"} :
         LET new == [kind |-> "dev", pool |-> "ours", name |-> sub.vol.name,
                     snap |-> IF IsSnapshot(sub.vol) THEN sub.vol.snap ELSE "-"]
             s == [sub EXCEPT !.maps = @ + 1,
                              !.reg = IF out = "fail" THEN @ ELSE Append(@, new)]
         IN  sub' = IF out = "path"
                    THEN DevPathReturn(s, DevPathResult(TRUE, Len(s.reg), "nil"))
                    ELSE DevPathReturn(s, DevPathResult(FALSE, NoPath, "map"))
    /\ UNCHANGED <<img, snp, stack, call, pre, log, prev, faults>>

DevPathDone ==
    /\ DevPathAt("returned")
    /\ sub' = NoSub
    /\ UNCHANGED <<img, snp, stack, call, pre, log, prev, faults>>

NextDevPath ==
    \/ CallGetRBDMappedDevPath
    \/ DevPathScan
    \/ DevPathMap
    \/ DevPathDone
SpecDevPath == Init /\ [][NextDevPath]_vars

\* an entry that is the target's device
IsDeviceOf(vol, e) ==
    /\ e.kind = "dev" /\ e.pool = "ours" /\ e.name = vol.name
    /\ IF IsSnapshot(vol) THEN e.snap = vol.snap ELSE e.snap \in {"absent", "", "-"}
Matching(vol, reg) == {j \in 1..Len(reg) : IsDeviceOf(vol, reg[j])}

\* C18: when getRBDMappedDevPath returns a device that was already there,
\* the registry entry of that device has the target's pool and image name,
\* and its current_snap is the snapshot's name when the target is a
\* snapshot, and is empty, unset or "-" when the target is the live volume.
C18_ExistingReturned ==
    /\ DevPathAt("returned") /\ sub.ret.err = "nil" /\ ~sub.ret.mapped
C18_OnlyMatchingDevice ==
    C18_ExistingReturned =>
        /\ sub.ret.path \in 1..Len(sub.reg0)
        /\ IsDeviceOf(sub.vol, sub.reg0[sub.ret.path])
C18_Witness ==
    /\ C18_ExistingReturned
    /\ IsSnapshot(sub.vol)
    /\ sub.ret.path = 2
    /\ sub.reg0[1].kind = "dev" /\ sub.reg0[1].pool = "ours"
    /\ sub.reg0[1].name = sub.vol.name /\ sub.reg0[1].snap = "-"
C18_WitnessLive ==
    /\ C18_ExistingReturned
    /\ ~IsSnapshot(sub.vol)
    /\ sub.ret.path = 2
    /\ sub.reg0[1].kind = "dev" /\ sub.reg0[1].pool = "ours"
    /\ sub.reg0[1].name = sub.vol.name /\ sub.reg0[1].snap \in SnapNames

\* C19: a call of getRBDMappedDevPath that meets no read error returns
\* (false, path of the first registry entry that is the target's device)
\* without a map command when there is such an entry; when there is none it
\* issues exactly one map command if mapIfMissing is set, returning
\* (true, path of the new device) when the command succeeds, and fails with
\* the not-mapped error, registry untouched, if mapIfMissing is not set.
C19_Returned == DevPathAt("returned") /\ sub.ret.err # "io"
C19_First(S) == CHOOSE j \in S : \A k \in S : j <= k
C19_ResolveOrMap ==
    C19_Returned =>
        LET M == Matching(sub.vol, sub.reg0)
        IN  IF M # {}
            THEN /\ sub.ret = DevPathResult(FALSE, C19_First(M), "nil")
                 /\ sub.maps = 0 /\ sub.reg = sub.reg0
            ELSE IF sub.mapIfMissing
            THEN /\ sub.maps = 1
                 /\ sub.ret.err \in {"nil", "map"}
                 /\ sub.ret.err = "nil" =>
                        /\ sub.ret = DevPathResult(TRUE, Len(sub.reg0) + 1, "nil")
                        /\ Matching(sub.vol, sub.reg) = {sub.ret.path}
            ELSE /\ sub.ret = DevPathResult(FALSE, NoPath, "notmapped")
                 /\ sub.maps = 0 /\ sub.reg = sub.reg0
C19_Witness ==
    /\ C19_Returned /\ sub.ret.mapped /\ sub.ret.err = "nil"
    /\ ~IsSnapshot(sub.vol)
    /\ Len(sub.reg0) = MaxDevs
    /\ \A j \in 1..Len(sub.reg0) :
          /\ sub.reg0[j].kind = "dev" /\ sub.reg0[j].pool = "ours"
          /\ sub.reg0[j].name = sub.vol.name /\ sub.reg0[j].snap \in SnapNames
C19_WitnessFirstOfTwo ==
    /\ C19_Returned /\ Matching(sub.vol, sub.reg0) = {1, 2}
    /\ sub.ret.path = 1
C19_WitnessNotMapped ==
    /\ C19_Returned /\ sub.ret.err = "notmapped" /\ Len(sub.reg0) = MaxDevs

\* ========================== sendVolume ==========================
\* sub holds the call: its arguments (volumeParentName, tracker), the
\* argument list built for rbd, the deferred calls, the connection (open,
\* number of Close calls, chunks received, chunks the tracker counted) and
\* the export process (chunks left to write, captured stderr).
\* "defer func() { _ = conn.Close() }()"
Deferred_Nothing == <<>>
Deferred == <<"conn.Close">>

\* args: export-diff ... volumeName [--from-snap volumeParentName] -
ExportArgs(parent) ==
    IF parent # "" THEN <<"export-diff", "vol", "--from-snap", parent, "-">>
    ELSE <<"export-diff", "vol", "-">>

\* fmt.Errorf("ceph export-diff failed: %w (%s)", err, string(output)): the
\* text of the error ends with what was read from the process's stderr
ExportError_Bare(output) == [msg |-> "export-diff failed", text |-> ""]
ExportError(output) == [msg |-> "export-diff failed", text |-> output]
\* an error returned as it came (StderrPipe, Start) and the nil error
PlainError(msg) == [msg |-> msg, text |-> ""]
NilError == PlainError("nil")

\* a return statement: the deferred calls run, then the caller has err
SendReturn(s, err, by) ==
    [s EXCEPT !.pc = "returned", !.err = err, !.by = by,
              !.open = IF "conn.Close" \in {s.defers[j] : j \in 1..Len(s.defers)}
                       THEN FALSE ELSE @,
              !.closes = @ + Len(s.defers),
              !.defers = <<>>]
SendAt(pc) == sub.m = "send" /\ sub.pc = pc

CallSendVolume ==
    /\ sub.m = "none"
    /\ \E parent \in {"", "s1", "s2"}, tracker \in BOOLEAN, chunks \in 0..MaxChunks :
          sub' = [m |-> "send", parent |-> parent, tracker |-> tracker,
                  args |-> ExportArgs(parent), defers |-> Deferred,
                  open |-> TRUE, closes |-> 0, received |-> 0, tracked |-> 0,
                  chunks |-> chunks, output |-> "", stderr |-> "", status |-> 0,
                  pc |-> "pipe", err |-> NilError, by |-> "none"]
    /\ UNCHANGED <<img, snp, stack, call, pre, log, prev, faults>>

\* stderr, err := cmd.StderrPipe(); if err != nil { return err }
SendStderrPipe ==
    /\ SendAt("pipe")
    /\ \E ok \in BOOLEAN :
          sub' = IF ok THEN [sub EXCEPT !.pc = "start"]
                 ELSE SendReturn(sub, PlainError("pipe"), "pipe")
    /\ UNCHANGED <<img, snp, stack, call, pre, log, prev, faults>>

\* cmd.Stdout = stdout; err = cmd.Start(); if err != nil { return err }
SendStart ==
    /\ SendAt("start")
    /\ \E ok \in BOOLEAN :
          sub' = IF ok THEN [sub EXCEPT !.pc = "running"]
                 ELSE SendReturn(sub, PlainError("start"), "start")
    /\ UNCHANGED <<img, snp, stack, call, pre, log, prev, faults>>

\* the export process writes a chunk of the diff to its standard output,
\* the connection, through the ProgressWriter when there is a tracker
ExportWrites ==
    /\ SendAt("running") /\ sub.chunks > 0 /\ sub.open
    /\ sub' = [sub EXCEPT !.chunks = @ - 1, !.received = @ + 1,
                          !.tracked = IF sub.tracker THEN @ + 1 ELSE @]
    /\ UNCHANGED <<img, snp, stack, call, pre, log, prev, faults>>

\* output, _ := io.ReadAll(stderr); err = cmd.Wait(): the process has ended,
\* with all its chunks written and exit status 0, or with a non-zero status;
\* what it wrote to stderr has been read; Wait also fails when the copy of
\* the process's output to the connection failed
SendWait ==
    /\ SendAt("running")
    /\ \E status \in {0, 1}, text \in {"", "diag"}, copied \in BOOLEAN :
          /\ (status = 0 /\ copied) => sub.chunks = 0
          /\ LET s == [sub EXCEPT !.stderr = text, !.output = text, !.status = status]
             IN  sub' = IF status # 0 THEN SendReturn(s, ExportError(s.output), "exit")
                        ELSE IF ~copied THEN SendReturn(s, ExportError(s.output), "copy")
                        ELSE SendReturn(s, NilError, "ok")
    /\ UNCHANGED <<img, snp, stack, call, pre, log, prev, faults>>

SendDone ==
    /\ SendAt("returned")
    /\ sub' = NoSub
    /\ UNCHANGED <<img, snp, stack, call, pre, log, prev, faults>>

NextSend ==
    \/ CallSendVolume
    \/ SendStderrPipe
    \/ SendStart
    \/ ExportWrites
    \/ SendWait
    \/ SendDone
SpecSend == Init /\ [][NextSend]_vars

\* C20: whenever sendVolume has returned, by any of its return statements
\* (stderr pipe not created, process not started, non-zero exit of the
\* export, success), the connection has been closed, once, and sendVolume
\* does not close it before it returns.
C20_SendReturned == SendAt("returned")
C20_ConnectionClosedOnReturn ==
    /\ C20_SendReturned => (~sub.open /\ sub.closes = 1)
    /\ (sub.m = "send" /\ ~C20_SendReturned) => (sub.open /\ sub.closes = 0)
C20_Witness ==
    /\ C20_SendReturned /\ sub.by = "pipe" /\ sub.err # NilError /\ ~sub.open
C20_WitnessStart == C20_SendReturned /\ sub.by = "start" /\ ~sub.open
C20_WitnessExit ==
    C20_SendReturned /\ sub.by = "exit" /\ sub.chunks > 0 /\ ~sub.open
C20_WitnessSuccess ==
    C20_SendReturned /\ sub.by = "ok" /\ sub.received = MaxChunks /\ ~sub.open

\* C21: when the export process exits non-zero, sendVolume returns an error
\* whose text carries what the process wrote to stderr; sendVolume returns
\* nil only when the process was started and exited with status 0.
C21_ExportFailed == SendAt("returned") /\ sub.by = "exit"
C21_ExitStatusSurfaced ==
    SendAt("returned") =>
        /\ sub.by = "exit" =>
               /\ sub.status # 0
               /\ sub.err # NilError /\ sub.err.text = sub.stderr
        /\ sub.err = NilError => (sub.by = "ok" /\ sub.status = 0)
        /\ sub.by \in {"exit", "copy", "ok"}
               => (sub.status # 0 => sub.err.msg = "export-diff failed")
C21_Witness ==
    /\ C21_ExportFailed /\ sub.stderr = "diag" /\ sub.err.text = "diag"
    /\ sub.received > 0

\* ========================= receiveVolume =========================
\* The call runs on two tasks: the caller's, at pc, and the goroutine
\* started by the go statement, at gpc.  Both assign the variable err of
\* the enclosing function ("_, err = io.Copy(stdin, conn)" has no ":="), so
\* each statement that reads or writes err is a step of its own.
\*   err        the shared variable
\*   ch         the buffered channel chCopyConn: <<>> or one value
\*   copied     how io.Copy really ended: "none" (not yet), "ok", "fail"
\*   started, status, stderr   the import process
\*   chunks, fed   chunks waiting on the connection, chunks written to stdin
\*   tasks, joined   goroutines started, and whether the channel was read
\* errs = append(errs, err); if chCopyConnErr != nil { errs = append(...) }
\* under "if err != nil" of cmd.Wait()
CollectErrors_None(waitErr, copyErr) == <<>>
CollectErrors(waitErr, copyErr) ==
    IF waitErr # "nil"
    THEN <<waitErr>> \o (IF copyErr # "nil" THEN <<copyErr>> ELSE <<>>)
    ELSE <<>>
\* fmt.Errorf("Problem with ceph import-diff: (%v) %s", errs, string(output))
ImportError(errs, output) == [msg |-> "import-diff", errs |-> errs, text |-> output]
RecvPlainError(msg) == [msg |-> msg, errs |-> <<>>, text |-> ""]
RecvNil == RecvPlainError("nil")

RecvAt(pc) == sub.m = "recv" /\ sub.pc = pc
CopyAt(gpc) == sub.m = "recv" /\ sub.gpc = gpc
RecvReturn(s, err, by) == [s EXCEPT !.pc = "returned", !.ret = err, !.by = by]

CallReceiveVolume ==
    /\ sub.m = "none"
    /\ \E chunks \in 0..MaxChunks :
          sub' = [m |-> "recv", pc |-> "stdinpipe", gpc |-> "none",
                  err |-> "nil", ch |-> <<>>, chCopyConnErr |-> "nil",
                  copied |-> "none", started |-> FALSE, status |-> 0,
                  stderr |-> "", output |-> "", chunks |-> chunks, fed |-> 0,
                  stdinOpen |-> TRUE, tasks |-> 0, joined |-> FALSE,
                  ret |-> RecvNil, by |-> "none"]
    /\ UNCHANGED <<img, snp, stack, call, pre, log, prev, faults>>

\* stdin, err := cmd.StdinPipe(); if err != nil { return err }
RecvStdinPipe ==
    /\ RecvAt("stdinpipe")
    /\ \E ok \in BOOLEAN :
          sub' = IF ok THEN [sub EXCEPT !.pc = "stderrpipe"]
                 ELSE RecvReturn([sub EXCEPT !.err = "pipe"], RecvPlainError("pipe"), "stdinpipe")
    /\ UNCHANGED <<img, snp, stack, call, pre, log, prev, faults>>

\* stderr, err := cmd.StderrPipe(); if err != nil { return err }
RecvStderrPipe ==
    /\ RecvAt("stderrpipe")
    /\ \E ok \in BOOLEAN :
          sub' = IF ok THEN [sub EXCEPT !.pc = "go"]
                 ELSE RecvReturn([sub EXCEPT !.err = "pipe"], RecvPlainError("pipe"), "stderrpipe")
    /\ UNCHANGED <<img, snp, stack, call, pre, log, prev, faults>>

\* chCopyConn := make(chan error, 1); go func() { ... }()
RecvGo ==
    /\ RecvAt("go")
    /\ sub' = [sub EXCEPT !.pc = "start", !.gpc = "copy", !.tasks = @ + 1]
    /\ UNCHANGED <<img, snp, stack, call, pre, log, prev, faults>>

\* io.Copy(stdin, conn) moves a chunk from the connection to the pipe
CopyChunk ==
    /\ CopyAt("copy") /\ sub.chunks > 0
    /\ sub' = [sub EXCEPT !.chunks = @ - 1, !.fed = @ + 1]
    /\ UNCHANGED <<img, snp, stack, call, pre, log, prev, faults>>

\* _, err = io.Copy(stdin, conn): the copy ends, at the end of the stream or
\* with a read or write error, and its result is stored in err
CopyEnds ==
    /\ CopyAt("copy")
    /\ \E res \in {"ok", "fail"} :
          /\ res = "ok" => sub.chunks = 0
          /\ sub' = [sub EXCEPT !.gpc = "close", !.copied = res,
                                !.err = IF res = "ok" THEN "nil" ELSE "copy"]
    /\ UNCHANGED <<img, snp, stack, call, pre, log, prev, faults>>

\* _ = stdin.Close()
CopyClose ==
    /\ CopyAt("close")
    /\ sub' = [sub EXCEPT !.gpc = "send", !.stdinOpen = FALSE]
    /\ UNCHANGED <<img, snp, stack, call, pre, log, prev, faults>>

\* chCopyConn <- err
CopySend ==
    /\ CopyAt("send")
    /\ sub' = [sub EXCEPT !.gpc = "done", !.ch = <<sub.err>>]
    /\ UNCHANGED <<img, snp, stack, call, pre, log, prev, faults>>

\* err = cmd.Start()
RecvStart ==
    /\ RecvAt("start")
    /\ \E ok \in BOOLEAN :
          sub' = [sub EXCEPT !.pc = "started", !.started = ok,
                            !.err = IF ok THEN "nil" ELSE "start"]
    /\ UNCHANGED <<img, snp, stack, call, pre, log, prev, faults>>

\* if err != nil { return err }
RecvStartChecked ==
    /\ RecvAt("started")
    /\ sub' = IF sub.err # "nil" THEN RecvReturn(sub, RecvPlainError(sub.err), "start")
              ELSE [sub EXCEPT !.pc = "readall"]
    /\ UNCHANGED <<img, snp, stack, call, pre, log, prev, faults>>

\* output, _ := io.ReadAll(stderr): returns when the process has closed its
\* stderr, that is has ended; a process that reads its whole input ends
\* after stdin was closed; a process never started has no stderr to read
RecvReadAll ==
    /\ RecvAt("readall")
    /\ \E status \in {0, 1}, text \in {"", "diag"} :
          /\ sub.started /\ status = 0 => ~sub.stdinOpen
          /\ ~sub.started => (status = 1 /\ text = "")
          /\ sub' = [sub EXCEPT !.pc = "collect", !.status = status,
                                !.stderr = text, !.output = text]
    /\ UNCHANGED <<img, snp, stack, call, pre, log, prev, faults>>

\* chCopyConnErr := <-chCopyConn
RecvCollect ==
    /\ RecvAt("collect") /\ sub.ch # <<>>
    /\ sub' = [sub EXCEPT !.pc = "wait", !.chCopyConnErr = sub.ch[1],
                          !.ch = <<>>, !.joined = TRUE]
    /\ UNCHANGED <<img, snp, stack, call, pre, log, prev, faults>>

\* err = cmd.Wait() and the rest of the function
RecvWait ==
    /\ RecvAt("wait")
    /\ LET waitErr == IF sub.started /\ sub.status = 0 THEN "nil" ELSE "wait"
           errs == CollectErrors(waitErr, sub.chCopyConnErr)
           s == [sub EXCEPT !.err = waitErr]
       IN  sub' = IF Len(errs) > 0
                  THEN RecvReturn(s, ImportError(errs, sub.output), "errs")
                  ELSE RecvReturn(s, RecvNil, "ok")
    /\ UNCHANGED <<img, snp, stack, call, pre, log, prev, faults>>

\* the caller goes on; a goroutine still running is left behind
RecvDone ==
    /\ RecvAt("returned")
    /\ sub' = NoSub
    /\ UNCHANGED <<img, snp, stack, call, pre, log, prev, faults>>

NextRecv ==
    \/ CallReceiveVolume
    \/ RecvStdinPipe
    \/ RecvStderrPipe
    \/ RecvGo
    \/ CopyChunk
    \/ CopyEnds
    \/ CopyClose
    \/ CopySend
    \/ RecvStart
    \/ RecvStartChecked
    \/ RecvReadAll
    \/ RecvCollect
    \/ RecvWait
    \/ RecvDone
SpecRecv == Init /\ [][NextRecv]_vars

\* C22: receiveVolume returns an error when the copy from the connection
\* to the process's stdin failed or the import process exited non-zero, and
\* returns nil only when both ended cleanly.
C22_BothCollected == RecvAt("returned") /\ sub.by \in {"errs", "ok"}
C22_AggregateError ==
    C22_BothCollected =>
        /\ (sub.copied = "fail" \/ sub.status # 0) => sub.ret # RecvNil
        /\ sub.ret = RecvNil => (sub.copied = "ok" /\ sub.status = 0)

\* C23: receiveVolume starts at most one copy task, and whenever the call
\* has returned after starting it, the task has finished and its outcome
\* has been received from the channel.
C23_TaskStarted == sub.m = "recv" /\ sub.tasks > 0
C23_JoinedBeforeReturn ==
    /\ sub.m = "recv" => sub.tasks <= 1
    /\ (C23_TaskStarted /\ RecvAt("returned")) =>
           (sub.gpc = "done" /\ sub.joined)
C23_JoinedAfterWait ==
    (RecvAt("returned") /\ sub.by \in {"errs", "ok"}) =>
        (sub.tasks = 1 /\ sub.gpc = "done" /\ sub.joined)

\* ==================== the naming codec ====================
\* A string is a sequence of characters; the words the codec looks for
\* (zombie, image, custom, container, virtual-machine, .block, .iso,
\* snapshot) and a filesystem name (ext4) stand as one character each, next
\* to the letters a, b, s and the delimiters "_", "@", "/".
\* ---- package strings ----
HasPrefix(str, prefix) ==
    Len(str) >= Len(prefix) /\ SubSeq(str, 1, Len(prefix)) = prefix
HasSuffix(str, suffix) ==
    Len(str) >= Len(suffix) /\ SubSeq(str, Len(str) - Len(suffix) + 1, Len(str)) = suffix
TrimPrefix(str, prefix) ==
    IF HasPrefix(str, prefix) THEN SubSeq(str, Len(prefix) + 1, Len(str)) ELSE str
TrimSuffix(str, suffix) ==
    IF HasSuffix(str, suffix) THEN SubSeq(str, 1, Len(str) - Len(suffix)) ELSE str
\* strings.Index, counting from 1; 0 when sep does not occur
Index(str, sep) ==
    LET at == {i \in 1..(Len(str) - Len(sep) + 1) : SubSeq(str, i, i + Len(sep) - 1) = sep}
    IN  IF at = {} THEN 0 ELSE CHOOSE i \in at : \A j \in at : i <= j
Contains(str, sep) == Index(str, sep) # 0
\* strings.SplitN(str, sep, 2)
SplitN2(str, sep) ==
    LET i == Index(str, sep)
    IN  IF i = 0 THEN <<str>>
        ELSE <<SubSeq(str, 1, i - 1), SubSeq(str, i + Len(sep), Len(str))>>
\* strings.Split(str, sep)
RECURSIVE Split(_, _)
Split(str, sep) ==
    LET i == Index(str, sep)
    IN  IF i = 0 THEN <<str>>
        ELSE <<SubSeq(str, 1, i - 1)>> \o Split(SubSeq(str, i + Len(sep), Len(str)), sep)

\* ---- parseParent ----
TypePrefixes == {"image", "custom", "container", "virtual-machine"}
NoVolume == [pool |-> <<>>, isDeleted |-> FALSE, volType |-> "", contentType |-> "",
             name |-> <<>>, filesystem |-> <<>>]
Parsed(vol, snapName, err) == [vol |-> vol, snapName |-> snapName, err |-> err]

\* "Split snapshot name": the part after the last "@", and the rest
SnapSplit(parentName) ==
    LET s == Split(parentName, <<"@">>)
    IN  IF Len(s) > 1
        THEN [snapName |-> s[Len(s)],
              name |-> TrimSuffix(parentName, <<"@">> \o s[Len(s)])]
        ELSE [snapName |-> <<>>, name |-> parentName]

\* "Check for block indicator" and, for custom volumes, "or ISO indicator"
ContentSplit_IsoAnyType(volType, name) ==
    IF HasSuffix(name, <<".block">>)
    THEN [name |-> TrimSuffix(name, <<".block">>), contentType |-> "block"]
    ELSE IF HasSuffix(name, <<".iso">>)
    THEN [name |-> TrimSuffix(name, <<".iso">>), contentType |-> "iso"]
    ELSE [name |-> name, contentType |-> "filesystem"]
ContentSplit(volType, name) ==
    IF HasSuffix(name, <<".block">>)
    THEN [name |-> TrimSuffix(name, <<".block">>), contentType |-> "block"]
    ELSE IF volType = "custom" /\ HasSuffix(name, <<".iso">>)
    THEN [name |-> TrimSuffix(name, <<".iso">>), contentType |-> "iso"]
    ELSE [name |-> name, contentType |-> "filesystem"]

\* "Check for filesystem indicator", image volumes only
FilesystemSplit_AnyType(volType, name) ==
    IF Contains(name, <<"_">>)
    THEN LET s == Split(name, <<"_">>)
         IN  [name |-> TrimSuffix(name, <<"_">> \o s[Len(s)]), filesystem |-> s[Len(s)]]
    ELSE [name |-> name, filesystem |-> <<>>]
FilesystemSplit(volType, name) ==
    IF volType = "image" /\ Contains(name, <<"_">>)
    THEN LET s == Split(name, <<"_">>)
         IN  [name |-> TrimSuffix(name, <<"_">> \o s[Len(s)]), filesystem |-> s[Len(s)]]
    ELSE [name |-> name, filesystem |-> <<>>]

\* one of the four "Handle ..." blocks
ParseTyped(pool, parentName, volType) ==
    LET sn == SnapSplit(parentName)
        base == SplitN2(sn.name, <<volType, "_">>)[2]
        ct == ContentSplit(volType, base)
        fsp == FilesystemSplit(volType, ct.name)
    IN  Parsed([pool |-> pool, isDeleted |-> HasPrefix(parentName, <<"zombie", "_">>),
                volType |-> volType, contentType |-> ct.contentType,
                name |-> fsp.name, filesystem |-> fsp.filesystem],
               sn.snapName, "nil")

IsTyped(parentName, volType) ==
    \/ HasPrefix(parentName, <<volType, "_">>)
    \/ HasPrefix(parentName, <<"zombie", "_", volType, "_">>)

parseParentString(parent) ==
    LET fields == SplitN2(parent, <<"/">>)
    IN  IF Len(fields) # 2 THEN Parsed(NoVolume, <<>>, "Pool delimiter not found")
        ELSE IF \E t \in TypePrefixes : IsTyped(fields[2], t)
        THEN ParseTyped(fields[1], fields[2],
                        CHOOSE t \in TypePrefixes : IsTyped(fields[2], t))
        ELSE Parsed([NoVolume EXCEPT !.pool = fields[1],
                                     !.isDeleted = HasPrefix(fields[2], <<"zombie", "_">>)],
                    <<>>, "Unrecognized parent")

\* ---- the encoding format ----
\* [pool/]["zombie_"]<type-prefix>_<name>[.block|.iso][_<filesystemHint>][@<snapshotName>]
\* A tuple is [zombie, type, content, name, hint, snap]; an absent hint or
\* snapshot name is the empty string.
NameChars == {"a", "b"}
VolNames == UNION {[1..n -> NameChars] : n \in 1..MaxName}
SnapshotNames == {<<"s">>, <<"snapshot", "_", "s">>, <<"zombie", "_", "snapshot", "_", "s">>}
Hints == {<<"ext4">>}
Tuples ==
    {x \in [zombie : BOOLEAN, type : TypePrefixes,
            content : {"filesystem", "block", "iso"}, name : VolNames,
            hint : {<<>>} \cup Hints, snap : {<<>>} \cup SnapshotNames] :
        /\ x.content = "iso" => x.type = "custom"
        /\ x.hint # <<>> => x.type = "image"}
PoolName == <<"p">>
Encode(x) ==
    PoolName \o <<"/">>
    \o (IF x.zombie THEN <<"zombie", "_">> ELSE <<>>)
    \o <<x.type, "_">> \o x.name
    \o (CASE x.content = "block" -> <<".block">>
           [] x.content = "iso" -> <<".iso">>
           [] OTHER -> <<>>)
    \o (IF x.hint # <<>> THEN <<"_">> \o x.hint ELSE <<>>)
    \o (IF x.snap # <<>> THEN <<"@">> \o x.snap ELSE <<>>)
\* the tuple a decoded volume and snapshot name stand for
Decoded(r) ==
    [zombie |-> r.vol.isDeleted, type |-> r.vol.volType, content |-> r.vol.contentType,
     name |-> r.vol.name, hint |-> r.vol.filesystem, snap |-> r.snapName]

NoCaller == [ret |-> 0, err |-> "nil", uses |-> NoVolume]
CodecAt(fn, pc) == sub.m = "codec" /\ sub.fn = fn /\ sub.pc = pc

\* the parent string of a volume whose name was built by the encoder
CallParseParent ==
    /\ sub.m = "none"
    /\ \E x \in Tuples :
          sub' = [m |-> "codec", fn |-> "parseParent", pc |-> "call",
                  made |-> TRUE, x |-> x, str |-> Encode(x),
                  out |-> Parsed(NoVolume, <<>>, "nil"), caller |-> NoCaller]
    /\ UNCHANGED <<img, snp, stack, call, pre, log, prev, faults>>

ParseParentReturns ==
    /\ CodecAt("parseParent", "call")
    /\ sub' = [sub EXCEPT !.pc = "returned", !.out = parseParentString(sub.str)]
    /\ UNCHANGED <<img, snp, stack, call, pre, log, prev, faults>>

\* a parent string as "rbd info" could print it without the codec having
\* made it: no pool delimiter, or a name with none of the type prefixes
RawParents ==
    {TrimPrefix(Encode(x), PoolName \o <<"/">>) : x \in Tuples}
    \cup {PoolName \o <<"/">> \o (IF z THEN <<"zombie", "_">> ELSE <<>>)
              \o <<"other", "_">> \o n : z \in BOOLEAN, n \in VolNames}
    \cup {PoolName \o <<"/">> \o n : n \in VolNames}
NoTuple == [zombie |-> FALSE, type |-> "", content |-> "", name |-> <<>>,
            hint |-> <<>>, snap |-> <<>>]
CallParseParentRaw ==
    /\ sub.m = "none"
    /\ \E str \in RawParents :
          sub' = [m |-> "codec", fn |-> "parseParent", pc |-> "call",
                  made |-> FALSE, x |-> NoTuple, str |-> str,
                  out |-> Parsed(NoVolume, <<>>, "nil"), caller |-> NoCaller]
    /\ UNCHANGED <<img, snp, stack, call, pre, log, prev, faults>>

\* a parent string of any shape behind its type prefix: the text between the
\* prefix and the snapshot part holds underscores and suffixes anywhere,
\* and the snapshot part holds "@" itself
BodyChars == {"a", "_", ".block", ".iso", "ext4"}
Bodies == UNION {[1..n -> BodyChars] : n \in 1..(MaxName + 1)}
SnapParts == {<<>>, <<"@", "s">>, <<"@", "s", "@", "s">>, <<"@", "snapshot", "_", "s">>,
              <<"@">>}
NamedParents == [zombie : BOOLEAN, type : TypePrefixes, body : Bodies, snap : SnapParts]
NamedString(x) ==
    PoolName \o <<"/">> \o (IF x.zombie THEN <<"zombie", "_">> ELSE <<>>)
    \o <<x.type, "_">> \o x.body \o x.snap
CallParseParentNamed ==
    /\ sub.m = "none"
    /\ \E x \in NamedParents :
          sub' = [m |-> "codec", fn |-> "parseParent", pc |-> "call",
                  made |-> FALSE, x |-> x, str |-> NamedString(x),
                  out |-> Parsed(NoVolume, <<>>, "nil"), caller |-> NoCaller]
    /\ UNCHANGED <<img, snp, stack, call, pre, log, prev, faults>>

\* deleteVolume after d.parseParent(parent): "if err != nil { return -1, err }",
\* else it goes on to unmap and delete the volume and to look at parentVol
ParseFailed_Ignored(r) == FALSE
ParseFailed(r) == r.err # "nil"
DvParentParsed ==
    /\ CodecAt("parseParent", "returned")
    /\ sub' = IF ParseFailed(sub.out)
              THEN [sub EXCEPT !.pc = "done", !.caller = [ret |-> RetFailed, err |-> sub.out.err,
                                                          uses |-> NoVolume]]
              ELSE [sub EXCEPT !.pc = "done", !.caller = [ret |-> RetDeleted, err |-> "nil",
                                                          uses |-> sub.out.vol]]
    /\ UNCHANGED <<img, snp, stack, call, pre, log, prev, faults>>

\* ---- parseClone ----
Cloned(pool, volumeType, volumeName, volumeDeleted, err) ==
    [pool |-> pool, volumeType |-> volumeType, volumeName |-> volumeName,
     volumeDeleted |-> volumeDeleted, err |-> err]
NoClone == Cloned(<<>>, <<>>, <<>>, FALSE, "nil")
\* "Strip zombie prefix."
StripZombie_Not(volumeName) == volumeName
StripZombie(volumeName) == TrimPrefix(volumeName, <<"zombie", "_">>)
parseCloneString(clone) ==
    LET fields == SplitN2(clone, <<"/">>)
    IN  IF Len(fields) # 2
        THEN [NoClone EXCEPT !.err = "Pool delimiter not found"]
        ELSE LET f == SplitN2(StripZombie(fields[2]), <<"_">>)
             IN  IF Len(f) # 2 THEN [NoClone EXCEPT !.err = "Unexpected parsing error"]
                 ELSE Cloned(fields[1], f[1], f[2],
                             HasPrefix(fields[2], <<"zombie", "_">>), "nil")

\* clone references pool/[zombie_]<type>_<name>; a name is what follows the
\* type prefix, content suffix and underscores included
CloneNames == VolNames \cup {<<"a", "_", "b">>, <<"a", ".block">>, <<"a", "_", "ext4">>}
CloneRefs == [pool : {PoolName, <<"a", "b">>}, zombie : BOOLEAN,
              type : TypePrefixes, name : CloneNames]
CloneString(c) ==
    c.pool \o <<"/">> \o (IF c.zombie THEN <<"zombie", "_">> ELSE <<>>)
    \o <<c.type, "_">> \o c.name
NoCloneRef == [pool |-> <<>>, zombie |-> FALSE, type |-> "", name |-> <<>>]
\* strings that are no clone reference: the "/" is missing, or no "_"
\* follows the optional zombie_
RawClones ==
    {(IF c.zombie THEN <<"zombie", "_">> ELSE <<>>) \o <<c.type, "_">> \o c.name :
        c \in CloneRefs}
    \cup {c.pool \o <<"/">> \o (IF c.zombie THEN <<"zombie", "_">> ELSE <<>>) \o <<c.type>> :
              c \in CloneRefs}

CallParseClone ==
    /\ sub.m = "none"
    /\ \E c \in CloneRefs :
          sub' = [m |-> "codec", fn |-> "parseClone", pc |-> "call",
                  made |-> TRUE, x |-> c, str |-> CloneString(c), out |-> NoClone]
    /\ UNCHANGED <<img, snp, stack, call, pre, log, prev, faults>>

CallParseCloneRaw ==
    /\ sub.m = "none"
    /\ \E str \in RawClones :
          sub' = [m |-> "codec", fn |-> "parseClone", pc |-> "call",
                  made |-> FALSE, x |-> NoCloneRef, str |-> str, out |-> NoClone]
    /\ UNCHANGED <<img, snp, stack, call, pre, log, prev, faults>>

\* parseClone returns, and deleteVolumeSnapshot looks at err
ParseCloneReturns ==
    /\ CodecAt("parseClone", "call")
    /\ sub' = [sub EXCEPT !.pc = "done", !.out = parseCloneString(sub.str)]
    /\ UNCHANGED <<img, snp, stack, call, pre, log, prev, faults>>

CodecDone ==
    /\ sub.m = "codec" /\ sub.pc = "done"
    /\ sub' = NoSub
    /\ UNCHANGED <<img, snp, stack, call, pre, log, prev, faults>>

NextCodec ==
    \/ CallParseParent
    \/ CallParseParentRaw
    \/ CallParseParentNamed
    \/ ParseParentReturns
    \/ DvParentParsed
    \/ CallParseClone
    \/ CallParseCloneRaw
    \/ ParseCloneReturns
    \/ CodecDone
SpecCodec == Init /\ [][NextCodec]_vars

\* C24: parseParent applied to the encoding of a valid tuple returns the
\* tuple's zombie flag, type, content kind, name, filesystem hint and
\* snapshot name, and encoding what it returned gives the string back.
C24_Decoded == CodecAt("parseParent", "returned") /\ sub.made
C24_RoundTrip ==
    C24_Decoded =>
        /\ sub.out.err = "nil"
        /\ Decoded(sub.out) = sub.x
        /\ Encode(Decoded(sub.out)) = sub.str
C24_StringRoundTrip ==
    C24_Decoded => Encode(Decoded(sub.out)) = sub.str

\* C25: parseParent fails with "Pool delimiter not found" on a string
\* without "/", and with "Unrecognized parent" on a pool-qualified string
\* whose name has none of the four type prefixes, zombie_ or not; the two
\* errors differ, and deleteVolume returns Failed with the error, using
\* nothing of the volume parseParent returned.
C25_NotDecodable ==
    sub.m = "codec" /\ sub.fn = "parseParent" /\ ~sub.made /\ sub.x = NoTuple
C25_DecodeFailures ==
    C25_NotDecodable =>
        /\ sub.pc \in {"returned", "done"} =>
               sub.out.err = IF Contains(sub.str, <<"/">>)
                             THEN "Unrecognized parent"
                             ELSE "Pool delimiter not found"
        /\ sub.pc = "done" =>
               /\ sub.caller.ret = RetFailed
               /\ sub.caller.err = sub.out.err
               /\ sub.caller.uses = NoVolume
C25_Witness ==
    /\ C25_NotDecodable /\ sub.pc = "done"
    /\ sub.out.err = "Unrecognized parent" /\ sub.out.vol.isDeleted
    /\ sub.caller.ret = RetFailed
C25_WitnessNoPool ==
    /\ C25_NotDecodable /\ sub.pc = "done"
    /\ sub.out.err = "Pool delimiter not found"
    /\ HasPrefix(sub.str, <<"zombie", "_", "image", "_">>)

\* C26: parseClone applied to pool/[zombie_]<type>_<name> returns the pool,
\* the type, the name and the zombie flag; it fails on a string without
\* "/" and on one where no "_" follows the optional zombie_.
C26_CloneParsed == CodecAt("parseClone", "done")
C26_CloneDecoded ==
    C26_CloneParsed =>
        IF sub.made
        THEN sub.out = Cloned(sub.x.pool, <<sub.x.type>>, sub.x.name, sub.x.zombie, "nil")
        ELSE /\ sub.out.err # "nil"
             /\ sub.out = [NoClone EXCEPT !.err = sub.out.err]
C26_Witness ==
    /\ C26_CloneParsed /\ sub.made /\ sub.x.zombie
    /\ sub.x.type = "virtual-machine" /\ Contains(sub.x.name, <<"_">>)
    /\ sub.out.volumeName = sub.x.name /\ sub.out.volumeDeleted
C26_WitnessFails ==
    /\ C26_CloneParsed /\ ~sub.made
    /\ sub.out.err = "Unexpected parsing error" /\ HasPrefix(sub.str, PoolName \o <<"/", "zombie">>)

\* ---------------------------------------------------------------------
\* rbdProtectVolumeSnapshot, rbdUnprotectVolumeSnapshot and the no-clones
\* branch of deleteVolumeSnapshot that calls the second.
\* sub = [m |-> "protect", ...]:
\*   fn               the helper that runs
\*   prot, clones, maps, fault   the snapshot in the backend: protected,
\*                    number of clones, mappings, failures still to come
\*   pc, exit, err    the helper's position, the exit code it saw and the
\*                    error it returned (0: nil)
\*   prot0, maps0, faulted, nth   the state at the call, for the properties
\*   dvs, ret         whether deleteVolumeSnapshot is the caller, and its
\*                    return code once it returned
MaxCalls == 3
\* "if exitError.ExitCode() == 16 { // EBUSY (snapshot already protected)."
AlreadyProtected_Never(exit) == FALSE
AlreadyProtected(exit) == exit = EBUSY
\* "if exitError.ExitCode() == 22 { // (snapshot already unprotected)."
AlreadyUnprotected_Busy(exit) == exit = EBUSY
AlreadyUnprotected(exit) == exit = EINVAL

\* what "rbd snap protect" answers: 16 when the snapshot is protected
ProtectExits(s) ==
    (IF s.prot THEN {EBUSY} ELSE {0})
    \cup (IF s.fault > 0 THEN {EFAIL} ELSE {})
\* what "rbd snap unprotect" answers: 22 when the snapshot is not protected;
\* "This command will only succeed if the snapshot does not have any clones."
UnprotectExits(s) ==
    (IF ~s.prot THEN {EINVAL} ELSE IF s.clones > 0 THEN {EBUSY} ELSE {0})
    \cup (IF s.fault > 0 THEN {EFAIL} ELSE {})

ProtectCall(fn, prot, clones, maps, fault, nth, dvs) ==
    [m |-> "protect", fn |-> fn, prot |-> prot, clones |-> clones, maps |-> maps,
     fault |-> fault, busy |-> 0, pc |-> "run", exit |-> 0, err |-> 0,
     prot0 |-> prot, maps0 |-> maps, faulted |-> FALSE, nth |-> nth,
     dvs |-> dvs, ret |-> 0]
ProtectAt(fn, pc) == sub.m = "protect" /\ sub.fn = fn /\ sub.pc = pc
ProtectReturned == sub.m = "protect" /\ sub.pc = "returned"
ProtectAnswered(s, exit) ==
    [s EXCEPT !.exit = exit, !.faulted = @ \/ exit = EFAIL,
              !.fault = IF exit = EFAIL THEN @ - 1 ELSE @]

\* a caller protects or unprotects a snapshot, or unmaps it
CallProtect ==
    /\ sub.m = "none"
    /\ \E fn \in {"rbdProtectVolumeSnapshot", "rbdUnprotectVolumeSnapshot",
                   "rbdUnmapVolumeSnapshot"},
          prot \in BOOLEAN, clones \in 0..MaxVols, maps \in 0..MaxMaps,
          fault \in 0..MaxFaults :
          /\ clones > 0 => prot
          /\ sub' = ProtectCall(fn, prot, clones, maps, fault, 1, FALSE)
    /\ UNCHANGED <<img, snp, stack, call, pre, log, prev, faults>>

\* deleteVolumeSnapshot found no clones: "err = d.rbdUnprotectVolumeSnapshot"
DvsNoClones ==
    /\ sub.m = "none"
    /\ \E prot \in BOOLEAN, maps \in 0..MaxMaps, fault \in 0..MaxFaults :
          sub' = ProtectCall("rbdUnprotectVolumeSnapshot", prot, 0, maps, fault, 1, TRUE)
    /\ UNCHANGED <<img, snp, stack, call, pre, log, prev, faults>>

rbdProtectRun ==
    /\ ProtectAt("rbdProtectVolumeSnapshot", "run")
    /\ \E exit \in ProtectExits(sub) :
         LET s == ProtectAnswered(sub, exit)
         IN  sub' = IF exit # 0
                    THEN IF AlreadyProtected(exit)
                         THEN [s EXCEPT !.pc = "returned", !.err = 0]
                         ELSE [s EXCEPT !.pc = "returned", !.err = exit]
                    ELSE [s EXCEPT !.pc = "returned", !.err = 0, !.prot = TRUE]
    /\ UNCHANGED <<img, snp, stack, call, pre, log, prev, faults>>

rbdUnprotectRun ==
    /\ ProtectAt("rbdUnprotectVolumeSnapshot", "run")
    /\ \E exit \in UnprotectExits(sub) :
         LET s == ProtectAnswered(sub, exit)
         IN  sub' = IF exit # 0
                    THEN IF AlreadyUnprotected(exit)
                         THEN [s EXCEPT !.pc = "returned", !.err = 0]
                         ELSE [s EXCEPT !.pc = "returned", !.err = exit]
                    ELSE [s EXCEPT !.pc = "returned", !.err = 0, !.prot = FALSE]
    /\ UNCHANGED <<img, snp, stack, call, pre, log, prev, faults>>

\* rbdUnmapVolumeSnapshot(vol, snapshotName, true) on a device nobody holds
\* busy: one "rbd unmap", from the label "again" to the goto or the return
rbdUnmapRun ==
    /\ ProtectAt("rbdUnmapVolumeSnapshot", "run")
    /\ \E exit \in UnmapExits(sub) :
         LET s == ProtectAnswered(sub, exit)
         IN  sub' = IF exit # 0
                    THEN IF AlreadyUnmapped(exit)
                         THEN [s EXCEPT !.pc = "returned", !.err = 0]
                         ELSE [s EXCEPT !.pc = "returned", !.err = exit]
                    ELSE [s EXCEPT !.maps = @ - 1]
    /\ UNCHANGED <<img, snp, stack, call, pre, log, prev, faults>>

\* the caller runs a helper again on the same snapshot
CallProtectAgain ==
    /\ ProtectReturned /\ ~sub.dvs /\ sub.nth < MaxCalls
    /\ \E fn \in {"rbdProtectVolumeSnapshot", "rbdUnprotectVolumeSnapshot",
                   "rbdUnmapVolumeSnapshot"} :
          sub' = ProtectCall(fn, sub.prot, sub.clones, sub.maps, sub.fault,
                             sub.nth + 1, FALSE)
    /\ UNCHANGED <<img, snp, stack, call, pre, log, prev, faults>>

\* deleteVolumeSnapshot after each helper: "if err != nil { return -1, err }",
\* else on to the unmap, and after the unmap to the delete
DvsHelperChecked ==
    /\ ProtectReturned /\ sub.dvs
    /\ sub' = IF sub.err # 0 THEN [sub EXCEPT !.pc = "dvsreturned", !.ret = RetFailed]
              ELSE IF sub.fn = "rbdUnprotectVolumeSnapshot"
              THEN [sub EXCEPT !.fn = "rbdUnmapVolumeSnapshot", !.pc = "run"]
              ELSE [sub EXCEPT !.pc = "delete"]
    /\ UNCHANGED <<img, snp, stack, call, pre, log, prev, faults>>

ProtectDone ==
    /\ sub.m = "protect"
    /\ \/ sub.pc \in {"dvsreturned", "delete"}
       \/ sub.pc = "returned" /\ ~sub.dvs
    /\ sub' = NoSub
    /\ UNCHANGED <<img, snp, stack, call, pre, log, prev, faults>>

NextProtect ==
    \/ CallProtect
    \/ DvsNoClones
    \/ rbdProtectRun
    \/ rbdUnprotectRun
    \/ rbdUnmapRun
    \/ CallProtectAgain
    \/ DvsHelperChecked
    \/ ProtectDone
SpecProtect == Init /\ [][NextProtect]_vars

\* C27: a helper that finds its target already in the state it is to bring
\* about returns no error: unmapping an unmapped snapshot, unprotecting an
\* unprotected one and protecting a protected one; so deleteVolumeSnapshot
\* does not fail on a clone-free snapshot that was never protected.
C27_AlreadyThere ==
    /\ sub.m = "protect" /\ ~sub.faulted
    /\ CASE sub.fn = "rbdProtectVolumeSnapshot" -> sub.prot0
         [] sub.fn = "rbdUnprotectVolumeSnapshot" -> ~sub.prot0
         [] OTHER -> sub.maps0 = 0
C27_WitnessProtected ==
    /\ ProtectAt("rbdProtectVolumeSnapshot", "returned")
    /\ sub.prot0 /\ sub.exit = EBUSY /\ sub.err = 0 /\ sub.nth = 2

\* ---------------------------------------------------------------------
\* Two callers at once.  Nothing in deleteVolume or deleteVolumeSnapshot
\* takes a lock, so two calls on different volumes interleave at every rbd
\* command.  The variables stack and call are those of the caller whose
\* command comes next; sub = [m |-> "conc", stack, call, turn] keeps the
\* other caller's, and turn says which caller is the current one.  Caller
\* i deletes the clone i + 1.
\* The pool: volume 1 with snapshot 1, protected and cloned by volumes 2 and
\* 3; pz and sz say whether volume 1 and snapshot 1 carry zombie names;
\* with extra, volume 1 has a second, clone-free zombie snapshot 2; with
\* grand, volume 2 has a snapshot 3 of its own, cloned by volume 4.
ConcImg(pz, grand) ==
    [v \in 1..4 |->
        IF v = 1 THEN [used |-> TRUE, ex |-> TRUE, z |-> pz, parent |-> 0, maps |-> 0]
        ELSE IF v \in {2, 3}
        THEN [used |-> TRUE, ex |-> TRUE, z |-> FALSE, parent |-> 1, maps |-> 0]
        ELSE IF grand
        THEN [used |-> TRUE, ex |-> TRUE, z |-> FALSE, parent |-> 3, maps |-> 0]
        ELSE NoImg]
ConcSnp(sz, extra, grand) ==
    [s \in 1..3 |->
        IF s = 1 THEN [used |-> TRUE, ex |-> TRUE, vol |-> 1, z |-> sz,
                       prot |-> TRUE, maps |-> 0]
        ELSE IF s = 2 /\ extra
        THEN [used |-> TRUE, ex |-> TRUE, vol |-> 1, z |-> TRUE, prot |-> FALSE, maps |-> 0]
        ELSE IF s = 3 /\ grand
        THEN [used |-> TRUE, ex |-> TRUE, vol |-> 2, z |-> FALSE, prot |-> TRUE, maps |-> 0]
        ELSE NoSnp]

InitConc ==
    /\ \E pz \in BOOLEAN, sz \in BOOLEAN, extra \in BOOLEAN, grand \in BOOLEAN :
          /\ pz \/ sz
          /\ img = ConcImg(pz, grand) /\ snp = ConcSnp(sz, extra, grand)
          /\ pre = [img |-> ConcImg(pz, grand), snp |-> ConcSnp(sz, extra, grand)]
    /\ stack = <<>>
    /\ call = NoCall
    /\ log = <<>>
    /\ prev = NoPrev
    /\ faults = 0
    /\ sub = [m |-> "conc", stack |-> <<>>, call |-> NoCall, turn |-> 1]

\* the current caller calls deleteVolume on its clone
ConcCallDeleteVolume ==
    /\ sub.m = "conc" /\ call.st = "idle"
    /\ LET vh == VolHandle(img, sub.turn + 1)
       IN  /\ stack' = <<Frame("dv", "top", vh, NoHandle, "ls")>>
           /\ call' = [st |-> "running", fn |-> "dv", vol |-> vh, snap |-> NoHandle,
                       ret |-> 0, err |-> FALSE, frame |-> NoFrame, retry |-> FALSE]
    /\ UNCHANGED <<img, snp, pre, log, prev, faults, sub>>

\* the next rbd command is the other caller's
ConcSwitch ==
    /\ sub.m = "conc"
    /\ stack' = sub.stack /\ call' = sub.call
    /\ sub' = [sub EXCEPT !.stack = stack, !.call = call, !.turn = 3 - @]
    /\ UNCHANGED <<img, snp, pre, log, prev, faults>>

NextConc ==
    \/ ConcCallDeleteVolume
    \/ ConcSwitch
    \/ DvListSnapshots \/ DvSnapshotLoop \/ DvZombieUnmap \/ DvMarkDeleted
    \/ DvDeleteAfterSnapshots \/ DvGetParent \/ DvUnmap \/ DvDelete
    \/ DvsListClones \/ DvsCloneLoop \/ DvsUnprotect \/ DvsUnmap \/ DvsDelete
    \/ DvsZombieUnmap \/ DvsRename
SpecConc == InitConc /\ [][NextConc]_vars

\* C28: two deleteVolume calls running at once on two different clones of
\* one zombie snapshot both return without error, and the snapshot (and its
\* volume, if that is a zombie) is purged exactly once, whatever the order
\* of their rbd commands.
C28_BothReturned ==
    /\ sub.m = "conc" /\ call.st = "returned" /\ sub.call.st = "returned"
    /\ pre.snp[1].z /\ ~pre.snp[3].ex
C28_Purges == {i \in DOMAIN log : log[i].op = "snap_rm" /\ log[i].s = 1}
C28_PurgedOnce ==
    C28_BothReturned =>
        /\ ~call.err /\ ~sub.call.err
        /\ call.ret = RetDeleted /\ sub.call.ret = RetDeleted
        /\ ~snp[1].ex
        /\ pre.img[1].z => ~img[1].ex
        /\ Cardinality(C28_Purges) = 1
        /\ \A i \in C28_Purges : log[i].rc = "ok"
\* both clones are gone and the snapshot is purged, by one caller or the other
C28_CleanedUp ==
    C28_BothReturned =>
        /\ ~img[2].ex /\ ~img[3].ex /\ ~snp[1].ex
        /\ pre.img[1].z => ~img[1].ex
        /\ \E i \in C28_Purges : log[i].rc = "ok"
        /\ ~call.err \/ ~sub.call.err
C28_Witness == C28_BothReturned /\ ~call.err /\ ~sub.call.err /\ ~snp[1].ex

\* ---------------------------------------------------------------------
\* Replicating a volume and its snapshots, as the comment above sendVolume
\* lays it out for a container "a" with snapshots snap0 and snap1:
\*   rbd export-diff pool1/a@snap0 - | rbd import-diff - pool2/a
\*   rbd export-diff pool1/a@snap1 --from-snap snap0 - | rbd import-diff - pool2/a
\*   rbd export-diff pool1/a --from-snap snap1 - | rbd import-diff - pool2/a
\* The source has the snapshots 1..n in creation order; transfer k sends
\* snapshot k relative to snapshot k - 1, transfer n + 1 the volume itself.
\* sub = [m |-> "repl", ...]:
\*   n, k, pc      snapshots of the source, the transfer under way, its step
\*   args, diff    what sendVolume passes to rbd and the stream that makes:
\*                 the snapshot it starts from (0: none), the snapshot it
\*                 ends at (0: the volume itself) and its data chunks
\*   fed, copyErr, status   chunks that reached the import process, how
\*                 io.Copy ended, the exit status of the import
\*   sendErr, recvErr   what sendVolume and receiveVolume returned
\*   dest, live    the destination: its snapshot list, and the snapshot its
\*                 contents are at (n + 1: the source's current contents)
\*   state         "running", "complete" or "aborted"
SnapName(k) == IF k = 0 THEN "" ELSE IF k = 1 THEN "s1" ELSE IF k = 2 THEN "s2"
               ELSE IF k = 3 THEN "s3" ELSE "s4"
\* the snapshot export-diff starts from: the argument after --from-snap
FromSnap(args) ==
    IF \E j \in 1..(Len(args) - 1) : args[j] = "--from-snap"
    THEN args[(CHOOSE j \in 1..(Len(args) - 1) : args[j] = "--from-snap") + 1]
    ELSE ""
\* what sendVolume returns once the export process has ended
SendResult(status, copied, output) ==
    IF status # 0 \/ ~copied THEN ExportError(output) ELSE NilError
\* what receiveVolume returns once the import process has ended
RecvResult(status, copyErr, output) ==
    LET waitErr == IF status = 0 THEN "nil" ELSE "wait"
        errs == CollectErrors(waitErr, copyErr)
    IN  IF Len(errs) > 0 THEN ImportError(errs, output) ELSE RecvNil
\* import-diff needs the diff's starting snapshot on the destination and
\* reads the names of both snapshots at the head of the stream, its first
\* chunk; it cannot end well without them
ImportApplies(s) ==
    /\ s.fed >= 1
    /\ s.diff.from # "" => \E j \in 1..Len(s.dest) : s.dest[j] = s.diff.from
    /\ s.diff.to # "" => ~\E j \in 1..Len(s.dest) : s.dest[j] = s.diff.to
ImportExits(s) == IF ImportApplies(s) THEN {0, 1} ELSE {1}
\* the destination after an import that exited 0: the snapshot the diff
\* ends at is created
Imported(s) ==
    [s EXCEPT !.dest = IF s.diff.to # "" THEN Append(@, s.diff.to) ELSE @,
              !.live = IF s.fed = s.diff.chunks + 1 THEN s.k ELSE 0]
ReplAt(pc) == sub.m = "repl" /\ sub.state = "running" /\ sub.pc = pc

CallReplicate ==
    /\ sub.m = "none"
    /\ \E n \in 0..MaxSnaps :
          sub' = [m |-> "repl", n |-> n, k |-> 1, pc |-> "send", args |-> <<>>,
                  diff |-> [from |-> "", to |-> "", chunks |-> 0], sent |-> 0,
                  fed |-> 0, copyErr |-> "nil", status |-> 0,
                  sendErr |-> NilError, recvErr |-> RecvNil,
                  dest |-> <<>>, live |-> 0, state |-> "running", bad |-> 0]
    /\ UNCHANGED <<img, snp, stack, call, pre, log, prev, faults>>

\* sendVolume(conn, volumeName, volumeParentName, tracker) for transfer k:
\* the export runs and sendVolume returns
ReplSend ==
    /\ ReplAt("send")
    /\ \E chunks \in 0..MaxChunks, status \in {0, 1}, copied \in BOOLEAN :
          LET args == ExportArgs(SnapName(sub.k - 1))
              sent == IF status = 0 /\ copied THEN chunks + 1 ELSE 0
          IN  /\ status # 0 \/ ~copied => chunks = 0
              /\ sub' = [sub EXCEPT
                            !.pc = "recv", !.args = args,
                            !.diff = [from |-> FromSnap(args),
                                      to |-> IF sub.k <= sub.n THEN SnapName(sub.k) ELSE "",
                                      chunks |-> chunks],
                            !.sent = sent,
                            !.sendErr = SendResult(status, copied, "")]
    /\ UNCHANGED <<img, snp, stack, call, pre, log, prev, faults>>

\* receiveVolume(volumeName, conn, writeWrapper) for transfer k: io.Copy
\* feeds the import what came over the connection, the import ends, and
\* receiveVolume returns
ReplReceive ==
    /\ ReplAt("recv")
    /\ \E fed \in 0..sub.sent, copyErr \in {"nil", "copy"} :
          /\ copyErr = "nil" => fed = sub.sent
          /\ LET s == [sub EXCEPT !.fed = fed, !.copyErr = copyErr]
             IN  \E status \in ImportExits(s) :
                    LET t == IF status = 0 THEN Imported(s) ELSE s
                    IN  sub' = [t EXCEPT !.pc = "check", !.status = status,
                                         !.recvErr = RecvResult(status, copyErr, ""),
                                         !.bad = IF status # 0 /\ @ = 0 THEN s.k ELSE @]
    /\ UNCHANGED <<img, snp, stack, call, pre, log, prev, faults>>

\* the caller stops at the first error, else goes on to the next snapshot,
\* and after the last one to the volume itself
ReplNext ==
    /\ ReplAt("check")
    /\ sub' = IF sub.sendErr # NilError \/ sub.recvErr # RecvNil
              THEN [sub EXCEPT !.state = "aborted"]
              ELSE IF sub.k = sub.n + 1 THEN [sub EXCEPT !.state = "complete"]
              ELSE [sub EXCEPT !.k = @ + 1, !.pc = "send"]
    /\ UNCHANGED <<img, snp, stack, call, pre, log, prev, faults>>

ReplDone ==
    /\ sub.m = "repl" /\ sub.state # "running"
    /\ sub' = NoSub
    /\ UNCHANGED <<img, snp, stack, call, pre, log, prev, faults>>

NextRepl ==
    \/ CallReplicate
    \/ ReplSend
    \/ ReplReceive
    \/ ReplNext
    \/ ReplDone
SpecRepl == Init /\ [][NextRepl]_vars

\* C29: when a volume was replicated by one sendVolume/receiveVolume pair
\* per snapshot in creation order, each relative to the snapshot before it,
\* and a last pair for the volume itself, the destination has the source's
\* snapshots, in the source's order.
C29_Replicated == sub.m = "repl" /\ sub.state = "complete"
C29_SameSnapshots ==
    C29_Replicated =>
        /\ sub.dest = [j \in 1..sub.n |-> SnapName(j)]
        /\ sub.bad = 0
C29_Witness ==
    /\ C29_Replicated /\ sub.n = MaxSnaps /\ Len(sub.dest) = MaxSnaps
    /\ sub.diff.from = SnapName(MaxSnaps) /\ sub.diff.to = ""
C29_WitnessCopyFailed ==
    C29_Replicated /\ sub.n >= 1 /\ sub.copyErr = "copy" /\ sub.live = 0

\* C30: deleteVolumeSnapshot runs "rbd snap rm" on a snapshot only right
\* after an unprotect and then an unmap of that snapshot that both
\* succeeded; when the unprotect or the unmap fails, it is the call's last
\* command: no removal follows and the call returns Failed.
C30_Removals == {i \in DOMAIN log : log[i].op = "snap_rm"}
C30_FailedSteps ==
    {i \in DOMAIN log : log[i].op \in {"snap_unprotect", "snap_unmap"} /\ log[i].rc # "ok"}
C30_UnprotectUnmapDelete ==
    /\ \A i \in C30_Removals :
          /\ i >= 3
          /\ log[i - 2] = [op |-> "snap_unprotect", v |-> log[i].v, s |-> log[i].s, rc |-> "ok"]
          /\ log[i - 1] = [op |-> "snap_unmap", v |-> log[i].v, s |-> log[i].s, rc |-> "ok"]
    /\ \A i \in C30_FailedSteps :
          /\ i = Len(log)
          /\ \A j \in C30_Removals : j < i /\ log[j].rc = "ok"
          /\ call.st = "returned" /\ call.ret = RetFailed /\ call.err
C30_Witness ==
    /\ \E i \in C30_Removals : log[i].rc = "ok" /\ ~snp[log[i].s].ex
    /\ call.st = "returned" /\ call.fn = "dvs" /\ call.frame.br = "clones"
C30_WitnessUnmapFails ==
    /\ \E i \in C30_FailedSteps : log[i].op = "snap_unmap"
    /\ call.st = "returned" /\ call.ret = RetFailed
C30_WitnessUnprotectFails ==
    /\ \E i \in C30_FailedSteps : log[i].op = "snap_unprotect"
    /\ call.st = "returned" /\ call.ret = RetFailed

\* C31: deleteVolume runs "rbd rm" on a volume only right after an unmap of
\* that volume that succeeded, in each of its branches: no snapshots and a
\* parent, no snapshots and no parent, snapshots none of which was left as
\* a zombie.
C31_Deletions == {i \in DOMAIN log : log[i].op = "rm"}
C31_UnmapBeforeDelete ==
    \A i \in C31_Deletions :
        /\ i >= 2
        /\ log[i - 1] = [op |-> "unmap", v |-> log[i].v, s |-> 0, rc |-> "ok"]
\* the branches that found no snapshots do unmap first
C31_UnmapBeforeDeleteNoSnapshots ==
    \A i \in C31_Deletions :
        (i >= 2 /\ log[i - 1].op \in {"info", "unmap"}) =>
            log[i - 1] = [op |-> "unmap", v |-> log[i].v, s |-> 0, rc |-> "ok"]

\* C32: within one top-level call no rbd command names a volume or a
\* snapshot that an earlier command of the same call removed, so nothing is
\* removed twice, although the loops walk lists read before the cascades.
C32_VolumeRemovedBefore(i) ==
    \E j \in 1..(i - 1) : log[j].op = "rm" /\ log[j].rc = "ok" /\ log[j].v = log[i].v
C32_SnapshotRemovedBefore(i) ==
    /\ log[i].s # 0
    /\ \E j \in 1..(i - 1) : log[j].op = "snap_rm" /\ log[j].rc = "ok" /\ log[j].s = log[i].s
C32_NothingTouchedAfterRemoval ==
    \A i \in DOMAIN log : ~C32_VolumeRemovedBefore(i) /\ ~C32_SnapshotRemovedBefore(i)
\* no snapshot is removed twice: the second command on it fails first
C32_SnapshotRemovedOnce ==
    \A i, j \in DOMAIN log :
        (log[i].op = "snap_rm" /\ log[j].op = "snap_rm" /\ log[i].s = log[j].s
            /\ log[i].rc = "ok" /\ log[j].rc = "ok") => i = j

\* C33: deleteVolume on a clone without snapshots, once it has unmapped and
\* removed the clone, returns Deleted (0) whether the deleteVolumeSnapshot
\* it runs on a zombie parent removed the parent snapshot or left it as a
\* zombie; it returns Failed only when a command of that cascade failed,
\* and the cascade starts after the clone is removed.
C33_CloneRemoved ==
    /\ Returned /\ call.fn = "dv"
    /\ pre.img[call.vol.id].parent # 0 /\ SnapsOf(pre.snp, call.vol.id) = {}
    /\ Len(log) >= 4
    /\ log[4] = [op |-> "rm", v |-> call.vol.id, s |-> 0, rc |-> "ok"]
C33_Cascade == {i \in DOMAIN log : i > 4}
C33_DeletedWhateverTheCascade ==
    C33_CloneRemoved =>
        /\ log[3] = [op |-> "unmap", v |-> call.vol.id, s |-> 0, rc |-> "ok"]
        /\ ~img[call.vol.id].ex
        /\ call.ret \in {RetDeleted, RetFailed}
        /\ call.ret = RetFailed <=> \E i \in C33_Cascade : log[i].rc = "err"
        /\ call.ret = RetDeleted <=> ~call.err
        /\ C33_Cascade # {} =>
               LET p == parseParent(pre.img, pre.snp, pre.img[call.vol.id].parent)
               IN  /\ ParentIsZombie(p.vol, p.snap)
                   /\ log[5].op = "children" /\ log[5].s = p.snap.id
C33_Witness ==
    /\ C33_CloneRemoved /\ call.ret = RetDeleted /\ C33_Cascade # {}
    /\ snp[pre.img[call.vol.id].parent].ex
C33_WitnessPurged ==
    /\ C33_CloneRemoved /\ call.ret = RetDeleted /\ C33_Cascade # {}
    /\ ~snp[pre.img[call.vol.id].parent].ex
C33_WitnessFailed ==
    C33_CloneRemoved /\ call.ret = RetFailed /\ ~img[call.vol.id].ex

\* the place of the last occurrence of a character, 0 when there is none
LastIndexOf(str, ch) ==
    IF \E j \in 1..Len(str) : str[j] = ch
    THEN CHOOSE j \in 1..Len(str) : str[j] = ch /\ \A k \in (j + 1)..Len(str) : str[k] # ch
    ELSE 0
Last(str) == IF str = <<>> THEN "" ELSE str[Len(str)]
ButLast(str) == SubSeq(str, 1, Len(str) - 1)

\* C34: parseParent gives the ISO content kind only to custom volumes, and
\* the block content kind to a volume of any type whose name ends in
\* .block; for a container, virtual-machine or image parent a trailing .iso
\* stays where it is and the content kind is filesystem.
C34_Parsed ==
    /\ sub.m = "codec" /\ sub.fn = "parseParent" /\ sub.pc \in {"returned", "done"}
    /\ ~sub.made /\ sub.x # NoTuple
\* the text between the type prefix and the last "@"
C34_Name ==
    LET full == sub.x.body \o sub.x.snap
        at == LastIndexOf(full, "@")
    IN  IF at = 0 THEN full ELSE SubSeq(full, 1, at - 1)
C34_ContentKind ==
    C34_Parsed =>
        /\ sub.out.err = "nil"
        /\ sub.out.vol.volType = sub.x.type
        /\ sub.out.vol.contentType = "iso" => sub.x.type = "custom"
        /\ Last(C34_Name) = ".block" => sub.out.vol.contentType = "block"
        /\ (Last(C34_Name) = ".iso" /\ sub.x.type # "custom") =>
               /\ sub.out.vol.contentType = "filesystem"
               /\ Last(sub.out.vol.name \o sub.out.vol.filesystem) = ".iso"
        /\ (Last(C34_Name) = ".iso" /\ sub.x.type = "custom") =>
               /\ sub.out.vol.contentType = "iso"
               /\ sub.out.vol.name = ButLast(C34_Name)
        /\ Last(C34_Name) \notin {".block", ".iso"} =>
               sub.out.vol.contentType = "filesystem"
C34_Witness ==
    /\ C34_Parsed /\ sub.x.type = "virtual-machine" /\ Last(C34_Name) = ".iso"
    /\ sub.out.vol.contentType = "filesystem" /\ Last(sub.out.vol.name) = ".iso"
C34_WitnessIso ==
    /\ C34_Parsed /\ sub.x.type = "custom" /\ sub.out.vol.contentType = "iso"
    /\ sub.x.zombie /\ sub.x.snap # <<>>
C34_WitnessBlock ==
    /\ C34_Parsed /\ sub.x.type = "image" /\ sub.out.vol.contentType = "block"
    /\ sub.out.vol.filesystem = <<"ext4">>

\* C35: parseParent takes a filesystem hint only from image volumes, and
\* only when what is left of the name after the prefixes, the snapshot part
\* and the content suffix holds a "_": the hint is what follows the last
\* "_", the name what precedes it; for the other types the underscores stay
\* in the name and there is no hint.  The snapshot name is what follows the
\* last "@".
C35_Rest ==
    IF Last(C34_Name) = ".block" \/ (sub.x.type = "custom" /\ Last(C34_Name) = ".iso")
    THEN ButLast(C34_Name) ELSE C34_Name
C35_HintAndSnapshot ==
    C34_Parsed =>
        LET rest == C35_Rest
            u == LastIndexOf(rest, "_")
            at == LastIndexOf(sub.str, "@")
        IN  /\ IF sub.x.type = "image" /\ u # 0
               THEN /\ sub.out.vol.filesystem = SubSeq(rest, u + 1, Len(rest))
                    /\ sub.out.vol.name = SubSeq(rest, 1, u - 1)
               ELSE /\ sub.out.vol.filesystem = <<>>
                    /\ sub.out.vol.name = rest
            /\ sub.out.snapName = IF at = 0 THEN <<>>
                                   ELSE SubSeq(sub.str, at + 1, Len(sub.str))
C35_Witness ==
    /\ C34_Parsed /\ sub.x.type = "image" /\ sub.out.vol.filesystem = <<"ext4">>
    /\ Contains(sub.out.vol.name, <<"_">>) /\ sub.out.snapName = <<"s">>
C35_WitnessLastAt ==
    /\ C34_Parsed /\ Len(sub.x.snap) = 4 /\ sub.out.snapName = <<"s">>
    /\ Contains(sub.out.vol.name, <<"@">>)
C35_WitnessOtherType ==
    /\ C34_Parsed /\ sub.x.type = "container" /\ Contains(sub.out.vol.name, <<"_">>)
    /\ sub.out.vol.filesystem = <<>>

\* C36: deleteVolume and deleteVolumeSnapshot return -1 exactly when they
\* return an error, and otherwise 0 or 1 with no error; 0 is never returned
\* for an entity that is still in the backend, and 1 never for an entity
\* that was removed.
C36_EntityExists ==
    IF call.fn = "dv" THEN img[call.vol.id].ex ELSE snp[call.snap.id].ex
C36_ErrorIffFailed ==
    Returned =>
        /\ call.ret \in {RetFailed, RetDeleted, RetZombified}
        /\ (call.ret = RetFailed) <=> call.err
C36_ReturnCodeTellsTheState ==
    /\ C36_ErrorIffFailed
    /\ Returned =>
        /\ call.ret = RetDeleted => ~C36_EntityExists
        /\ call.ret = RetZombified => C36_EntityExists

\* C37: in receiveVolume the copy goroutine and the main task do not
\* interfere through the variable err: what is sent on the channel is the
\* result of the goroutine's own io.Copy, and what the main task tests after
\* cmd.Start() is the result of that call, under every interleaving.
C37_CopyResult == IF sub.copied = "ok" THEN "nil" ELSE "copy"
C37_StartResult == IF sub.started THEN "nil" ELSE "start"
C37_ChannelCarriesCopyResult ==
    (sub.m = "recv" /\ sub.ch # <<>>) => sub.ch[1] = C37_CopyResult
C37_TestSeesStartResult ==
    RecvAt("started") => sub.err = C37_StartResult
C37_NoInterference ==
    C37_ChannelCarriesCopyResult /\ C37_TestSeesStartResult

\* C38: every call of rbdUnmapVolume and of rbdUnmapVolumeSnapshot returns,
\* with or without unmapUntilEINVAL, whatever the holder of the device does,
\* given that the mappings stacked on the target are finitely many and each
\* successful unmap removes one; with the flag set the loop ends on the
\* EINVAL answer, on the tenth EBUSY answer, or on another error.
C38_InLoop == sub.m = "unmap" /\ sub.pc = "again"
C38_LoopExits ==
    (UnmapReturned /\ sub.flag) =>
        \/ sub.via = "einval" /\ sub.err = 0
        \/ /\ sub.fn = "rbdUnmapVolume"
           /\ sub.err = EBUSY /\ sub.busyCount = BusyLimit
        \/ sub.err \notin {0, EINVAL} /\ sub.busyCount < BusyLimit
C38_UnmapTerminates ==
    /\ [](C38_LoopExits)
    /\ C38_InLoop ~> UnmapReturned
C38_Witness ==
    /\ UnmapReturned /\ sub.fn = "rbdUnmapVolume" /\ sub.flag
    /\ sub.busy = Forever /\ sub.maps0 = MaxStack
    /\ sub.oks >= 1 /\ sub.err = EBUSY /\ sub.busyCount = BusyLimit
C38_WitnessIdempotent ==
    /\ UnmapReturned /\ sub.flag /\ sub.via = "einval"
    /\ sub.maps0 = MaxStack /\ sub.oks = MaxStack /\ sub.busyCount = BusyLimit - 1
C38_WitnessSnapshot ==
    /\ UnmapReturned /\ sub.fn = "rbdUnmapVolumeSnapshot" /\ sub.flag
    /\ sub.busy = Forever /\ sub.err = EBUSY /\ sub.oks >= 1

\* C39: busyCount of rbdUnmapVolume is never reset within a call: it counts
\* every EBUSY answer of the call, so with unmapUntilEINVAL set a call
\* tolerates at most 9 of them over all the stacked mappings and returns the
\* error on the tenth, also when commands succeeded in between.
C39_BusyAnswers == sub.lead + sub.late
C39_CountsEveryBusy ==
    (sub.m = "unmap" /\ sub.fn = "rbdUnmapVolume") =>
        /\ sub.busyCount = C39_BusyAnswers
        /\ sub.busyCount <= BusyLimit
        /\ sub.busyCount = BusyLimit <=> (UnmapReturned /\ sub.err = EBUSY)
        /\ (UnmapReturned /\ sub.err = 0) => C39_BusyAnswers <= BusyLimit - 1
C39_NeverLowered ==
    (sub.m = "unmap" /\ sub.pc = "again" /\ sub'.m = "unmap")
        => sub'.busyCount >= sub.busyCount
C39_BusyCountNeverReset ==
    [](C39_CountsEveryBusy) /\ [][C39_NeverLowered]_vars
C39_Witness ==
    /\ UnmapReturned /\ sub.fn = "rbdUnmapVolume" /\ sub.flag
    /\ sub.err = EBUSY /\ sub.busyCount = BusyLimit
    /\ sub.oks >= 1 /\ sub.lead < BusyLimit - 1 /\ sub.late >= 2
C39_WitnessNine ==
    /\ UnmapReturned /\ sub.fn = "rbdUnmapVolume" /\ sub.flag
    /\ sub.err = 0 /\ sub.busyCount = BusyLimit - 1 /\ sub.late >= 1
    /\ sub.oks = MaxStack

\* ======================= osdPoolExists =======================
\* One "ceph osd pool get <pool> size" per call.  sub holds the call:
\*   pool, cluster, runnable   the world: whether the OSD pool is there, the
\*                   state of the cluster, whether the ceph tool can be run
\*   pc, out, err, status, ret   the position of the call, how the command
\*                   ended, the function's err and status, what it returned
\*   nth, seen       the calls made on this pool so far and their answers
\* exit status of the query for a pool that is not there
ENOENT == 2
\* exit statuses of the tool for failures that say nothing about the pool
EACCES == 13
ETIMEDOUT == 110
\* what an error that carries no exit status is reported as
NoStatus == 0 - 1

Exited(code) == [kind |-> "exit", code |-> code]
\* the process was killed by a signal; the tool could not be started
Killed == [kind |-> "signal", code |-> NoStatus]
NotRun == [kind |-> "norun", code |-> NoStatus]

\* how the query can end
PoolQueryEnds(s) ==
    IF ~s.runnable THEN {NotRun}
    ELSE {Killed} \cup
         CASE s.cluster = "up" -> {IF s.pool THEN Exited(0) ELSE Exited(ENOENT)}
           [] s.cluster = "down" -> {Exited(EFAIL), Exited(ETIMEDOUT)}
           [] OTHER -> {Exited(EACCES), Exited(EFAIL)}

\* "_, err := subprocess.RunCommand(...)": nil exactly for exit status 0
RunError(out) == IF out = Exited(0) THEN "nil" ELSE out.kind
\* linux.ExitStatus(err): the exit status of a process that exited
ExitStatus(out) == IF out.kind = "exit" THEN out.code ELSE NoStatus
\* "if status == 2 { return false, nil }"
PoolIsAbsent_AnyFailure(status) == status # 0
PoolIsAbsent(status) == status = ENOENT

PoolResult(exists, err) == [exists |-> exists, err |-> err]
PoolAt(pc) == sub.m = "pool" /\ sub.pc = pc
PoolCall(pool, cluster, runnable, nth, seen) ==
    [m |-> "pool", pool |-> pool, cluster |-> cluster, runnable |-> runnable,
     pc |-> "query", out |-> Exited(0), err |-> "nil", status |-> 0,
     ret |-> PoolResult(FALSE, "nil"), nth |-> nth, seen |-> seen]

CallOsdPoolExists ==
    /\ sub.m = "none"
    /\ \E pool \in BOOLEAN, cluster \in {"up", "down", "denied"}, runnable \in BOOLEAN :
          sub' = PoolCall(pool, cluster, runnable, 1, <<>>)
    /\ UNCHANGED <<img, snp, stack, call, pre, log, prev, faults>>

\* _, err := subprocess.RunCommand("ceph", ..., "osd", "pool", "get", ..., "size")
PoolQuery ==
    /\ PoolAt("query")
    /\ \E out \in PoolQueryEnds(sub) :
          sub' = [sub EXCEPT !.pc = IF RunError(out) = "nil" THEN "found" ELSE "failed",
                             !.out = out, !.err = RunError(out)]
    /\ UNCHANGED <<img, snp, stack, call, pre, log, prev, faults>>

\* return true, nil
PoolFound ==
    /\ PoolAt("found")
    /\ sub' = [sub EXCEPT !.pc = "returned", !.ret = PoolResult(TRUE, "nil"),
                          !.seen = Append(@, PoolResult(TRUE, "nil"))]
    /\ UNCHANGED <<img, snp, stack, call, pre, log, prev, faults>>

\* status, _ := linux.ExitStatus(err); if status == 2 { return false, nil };
\* return false, err
PoolFailed ==
    /\ PoolAt("failed")
    /\ LET status == ExitStatus(sub.out)
           ret == IF PoolIsAbsent(status) THEN PoolResult(FALSE, "nil")
                  ELSE PoolResult(FALSE, sub.err)
       IN  sub' = [sub EXCEPT !.pc = "returned", !.status = status, !.ret = ret,
                              !.seen = Append(@, ret)]
    /\ UNCHANGED <<img, snp, stack, call, pre, log, prev, faults>>

\* the caller asks again later: the cluster may have recovered or failed,
\* the pool may have been created or destroyed in between
CallOsdPoolExistsAgain ==
    /\ PoolAt("returned") /\ sub.nth < MaxCalls
    /\ \E pool \in BOOLEAN, cluster \in {"up", "down", "denied"} :
          sub' = PoolCall(pool, cluster, sub.runnable, sub.nth + 1, sub.seen)
    /\ UNCHANGED <<img, snp, stack, call, pre, log, prev, faults>>

PoolDone ==
    /\ PoolAt("returned")
    /\ sub' = NoSub
    /\ UNCHANGED <<img, snp, stack, call, pre, log, prev, faults>>

NextPool ==
    \/ CallOsdPoolExists
    \/ PoolQuery
    \/ PoolFound
    \/ PoolFailed
    \/ CallOsdPoolExistsAgain
    \/ PoolDone
SpecPool == Init /\ [][NextPool]_vars

\* C40: osdPoolExists returns (false, nil) only when the query exited with
\* status 2 and (true, nil) only when it exited with status 0; after any
\* other failure it returns that failure as its error, with false.
C40_Returned == PoolAt("returned")
C40_OnlyStatusTwoMeansAbsent ==
    C40_Returned =>
        /\ sub.ret = PoolResult(FALSE, "nil") => sub.out = Exited(ENOENT)
        /\ sub.ret = PoolResult(TRUE, "nil") => sub.out = Exited(0)
        /\ sub.out \notin {Exited(0), Exited(ENOENT)} =>
               sub.ret = PoolResult(FALSE, RunError(sub.out))
C40_Witness ==
    /\ C40_Returned /\ sub.cluster = "down" /\ ~sub.pool
    /\ sub.out = Exited(ETIMEDOUT) /\ sub.ret = PoolResult(FALSE, "exit")
    /\ sub.nth = 2 /\ sub.seen[1] = PoolResult(FALSE, "nil")
C40_WitnessAbsent ==
    /\ C40_Returned /\ sub.out = Exited(ENOENT) /\ sub.ret = PoolResult(FALSE, "nil")
C40_WitnessNoStatus ==
    /\ C40_Returned /\ sub.out = Killed /\ sub.ret = PoolResult(FALSE, "signal")
====
